---- MODULE Spec2Model ----
(***************************************************************************)
(* Verification model of moseq2-extract's frame-level pipeline             *)
(* (src/moseq2_extract/extract/proc.py) and of its command line (cli.py).  *)
(*                                                                         *)
(* Each function of the pipeline is a small state machine over the same    *)
(* variables; one specification per function:                              *)
(*   SpecSeg      get_frame_features (with get_largest_cc)                 *)
(*   SpecCrop     crop_and_rotate_frames                                   *)
(*   SpecBbox     get_bbox                                                 *)
(*   SpecScalars  compute_scalars                                          *)
(*   SpecHampel   feature_hampel_filter                                    *)
(*   SpecSmoother model_smoother                                           *)
(*   SpecFlips    get_flips                                                *)
(*   SpecEllipse  get_floor_ellipse (SpecEllipseFair: with fairness)       *)
(*   SpecRoi      get_roi                                                  *)
(*   SpecObjSeg   get_frame_features, contour choice in both modes         *)
(*   SpecBg       get_bground_im_file, call after call                     *)
(*   SpecClean    clean_frames                                             *)
(*   SpecApplyRoi apply_roi, apply_roi_to_mask                             *)
(*   SpecCropInFrame  crop_and_rotate_frames, centroids inside the frame   *)
(*   SpecCli      the find-roi and extract commands (cli.py)               *)
(*                                                                         *)
(* Floating point values are modelled by integers; NaN is one integer     *)
(* outside every range the model computes with, and the arithmetic and     *)
(* comparisons of the code go through operators that treat it as NaN.      *)
(***************************************************************************)
EXTENDS Integers, Sequences, FiniteSets, TLC

VARIABLES
    pc,        \* position of the running call
    args,      \* the call's arguments (read only during the call)
    frames,    \* the frame batch / image the call works on
    features,  \* the feature dict the call fills or filters in place
    idx,       \* loop index of the per-frame loops (1-based)
    out,       \* further results of the call
    raised     \* "none", or the exception that ended the call

vars == <<pc, args, frames, features, idx, out, raised>>

\* ------------------------------------------------------------------ values

NaN == -999999
\* None, as the empty tuple (the results it stands in for are tuples)
None == <<>>
IsNaN(v) == v = NaN

Abs(x) == IF x < 0 THEN -x ELSE x
Min2(a, b) == IF a <= b THEN a ELSE b
Max2(a, b) == IF a >= b THEN a ELSE b

\* the lists a batch of n frames is indexed by
Range(n) == 1..n

\* numpy arithmetic: NaN in, NaN out
NSub(a, b) == IF IsNaN(a) \/ IsNaN(b) THEN NaN ELSE a - b
NAdd(a, b) == IF IsNaN(a) \/ IsNaN(b) THEN NaN ELSE a + b
NMul(a, b) == IF IsNaN(a) \/ IsNaN(b) THEN NaN ELSE a * b
NAbs(a) == IF IsNaN(a) THEN NaN ELSE Abs(a)
\* numpy comparison: any comparison with NaN is False
NGt(a, b) == IF IsNaN(a) \/ IsNaN(b) THEN FALSE ELSE a > b

\* ------------------------------------------------------------------ bounds

\* frames per batch
NFrames == 2

\* ======================================================================
\* Foreground segmenter: get_largest_cc, im_moment_features,
\* get_frame_features
\* ======================================================================

\* pixels <<row, col>> of the (2 x 2) frames of the segmenter model
Pixels == {<<0, 0>>, <<0, 1>>, <<1, 0>>, <<1, 1>>}
\* depth values of a pixel (mm above the floor)
Heights == {0, 20}
\* frame_threshold and mask_threshold settings
FrameThresholds == {10}
MaskThresholds == {-30, 10, 25}

SegFrames == [Pixels -> Heights]

\* frames[i] > threshold, as the set of True pixels
Above(frame, threshold) == {p \in Pixels : frame[p] > threshold}

Adj4(p, q) == Abs(p[1] - q[1]) + Abs(p[2] - q[2]) = 1
Adj8(p, q) == p # q /\ Abs(p[1] - q[1]) <= 1 /\ Abs(p[2] - q[2]) <= 1

RECURSIVE Grow4(_, _)
Grow4(C, S) ==
    LET N == {q \in S \ C : \E p \in C : Adj4(p, q)}
    IN  IF N = {} THEN C ELSE Grow4(C \cup N, S)

RECURSIVE Grow8(_, _)
Grow8(C, S) ==
    LET N == {q \in S \ C : \E p \in C : Adj8(p, q)}
    IN  IF N = {} THEN C ELSE Grow8(C \cup N, S)

\* raster-scan position of a pixel, and of the first pixel of a component
Raster(p) == 2 * p[1] + p[2]
FirstPixel(c) == CHOOSE n \in {Raster(p) : p \in c} : \A p \in c : n <= Raster(p)

\* cv2.connectedComponentsWithStats(connectivity=4): the foreground
\* components; their labels 1, 2, ... follow the raster order of their
\* first pixels
Components4(S) == {Grow4({p}, S) : p \in S}

\* szs[1:].argmax() + 1: the first label of largest area; argmax of an empty
\* array raises ValueError
LargestOf(comps) ==
    CHOOSE c \in comps :
        \A d \in comps :
            \/ Cardinality(d) < Cardinality(c)
            \/ Cardinality(d) = Cardinality(c) /\ FirstPixel(c) <= FirstPixel(d)

get_largest_cc(S) ==
    IF Components4(S) = {}
    THEN [raised |-> "ValueError", cc |-> {}]
    ELSE [raised |-> "none", cc |-> LargestOf(Components4(S))]

\* cv2.findContours: one outer contour per 8-connected blob of the mask (a
\* 2 x 2 mask has no holes), named by the pixels it runs through
Contours(S) == {Grow8({p}, S) : p \in S}

\* twice cv2.contourArea of a contour of the 2 x 2 frame: the polygon through
\* the pixel centres (a square of area 1, a triangle of area 1/2, or a
\* degenerate polygon of area 0)
ContourArea2(c) ==
    IF Cardinality(c) = 4 THEN 2 ELSE IF Cardinality(c) = 3 THEN 1 ELSE 0

\* tmp.argmax(): the contour of largest area
MouseCnt(cnts) ==
    CHOOSE c \in cnts :
        \A d \in cnts :
            \/ ContourArea2(d) < ContourArea2(c)
            \/ ContourArea2(d) = ContourArea2(c) /\ FirstPixel(c) <= FirstPixel(d)

\* the moment features of a contour of the 2 x 2 frame that has an area, in
\* 1/100 (rounded down) and, for the orientation, in units of pi/4:
\*   the square:   centroid (0.5, 0.5), mu20 = mu02, mu11 = 0
\*   a triangle:   centroid = mean of its corners, mu20 = mu02 = 1/36,
\*                 |mu11| = 1/72, m00 = 1/2
SumX(c) == IF c = {} THEN 0 ELSE
           LET RECURSIVE S(_)
               S(d) == IF d = {} THEN 0
                       ELSE LET p == CHOOSE q \in d : TRUE IN p[2] + S(d \ {p})
           IN S(c)
SumY(c) == IF c = {} THEN 0 ELSE
           LET RECURSIVE S(_)
               S(d) == IF d = {} THEN 0
                       ELSE LET p == CHOOSE q \in d : TRUE IN p[1] + S(d \ {p})
           IN S(c)
MomentCentroid(c) ==
    <<(100 * SumX(c)) \div Cardinality(c), (100 * SumY(c)) \div Cardinality(c)>>
\* -.5 * arctan2(2 mu11, mu20 - mu02): 0 for the square; for a triangle
\* mu20 = mu02 and the sign of mu11 is that of the diagonal it lies along
MomentOrientation(c) ==
    IF Cardinality(c) = 4 THEN 0
    ELSE IF <<0, 0>> \in c /\ <<1, 1>> \in c THEN -1 ELSE 1
\* 2 sqrt(2) sqrt((mu20 + mu02 +- common) / m00)
MomentAxisLength(c) ==
    IF Cardinality(c) = 4 THEN <<115, 115>> ELSE <<115, 66>>

NaNRow == [centroid |-> <<NaN, NaN>>, orientation |-> NaN,
           axis_length |-> <<NaN, NaN>>]

im_moment_features(c) ==
    IF ContourArea2(c) = 0
    THEN NaNRow
    ELSE [centroid |-> MomentCentroid(c),
          orientation |-> MomentOrientation(c),
          axis_length |-> MomentAxisLength(c)]

\* the mask of frame i before the contour search (proc.py 726-731); the
\* connected-component mask is computed only with use_cc
CcOf(frame, a) ==
    IF a.use_cc THEN get_largest_cc(Above(frame, a.mask_threshold))
    ELSE [raised |-> "none", cc |-> Pixels]

\* frame_mask before "Apply mask" (proc.py 726-731)
CcFrameMask(frame, a) == Above(frame, a.frame_threshold) \cap CcOf(frame, a).cc

\* the mask argument: the default empty array, or one image per frame
MaskImages == {[p \in Pixels |-> 0], [p \in Pixels |-> 20]}
EmptyArray == <<>>
HasMask(a) == DOMAIN a.mask # {}

\* frame_mask of frame i after "Apply mask" (proc.py 742-745)
FrameMask(frame, a, i) ==
    IF HasMask(a)
    THEN CcFrameMask(frame, a) \cap Above(a.mask[i], a.mask_threshold)
    ELSE CcFrameMask(frame, a)

\* the feature row of frame i (proc.py 748-772, typical case)
FrameRow(frame, a, i) ==
    LET cnts == Contours(FrameMask(frame, a, i))
    IN  IF cnts = {} THEN NaNRow ELSE im_moment_features(MouseCnt(cnts))

SegArgs == [frame_threshold : FrameThresholds, mask_threshold : MaskThresholds,
            use_cc : BOOLEAN,
            mask : {EmptyArray} \cup [Range(NFrames) -> MaskImages]]

InitSeg ==
    /\ pc = "seg_loop"
    /\ args \in SegArgs
    /\ frames \in [Range(NFrames) -> SegFrames]
    /\ features = [i \in Range(NFrames) |-> NaNRow]
    /\ idx = 1
    /\ out = IF HasMask(args) THEN args.mask ELSE [i \in Range(NFrames) |-> {}]
    /\ raised = "none"

\* one iteration of the loop over the frames whose connected-component
\* search raises: the exception leaves get_frame_features
SegFrameRaises ==
    /\ pc = "seg_loop"
    /\ idx <= NFrames
    /\ CcOf(frames[idx], args).raised # "none"
    /\ pc' = "seg_raised"
    /\ raised' = CcOf(frames[idx], args).raised
    /\ UNCHANGED <<args, frames, features, idx, out>>

\* one iteration that completes: the row of frame idx is written (a frame
\* without contour keeps the NaN row it was initialised with)
SegFrame ==
    /\ pc = "seg_loop"
    /\ idx <= NFrames
    /\ CcOf(frames[idx], args).raised = "none"
    /\ features' = [features EXCEPT ![idx] = FrameRow(frames[idx], args, idx)]
    /\ out' = IF HasMask(args) THEN out
              ELSE [out EXCEPT ![idx] = CcFrameMask(frames[idx], args)]
    /\ idx' = idx + 1
    /\ UNCHANGED <<pc, args, frames, raised>>

SegReturn ==
    /\ pc = "seg_loop"
    /\ idx > NFrames
    /\ pc' = "seg_done"
    /\ UNCHANGED <<args, frames, features, idx, out, raised>>

NextSeg == SegFrameRaises \/ SegFrame \/ SegReturn

SpecSeg == InitSeg /\ [][NextSeg]_vars

\* C1: get_frame_features never aborts a batch because of a frame without a
\* subject: for every batch, threshold setting and use_cc the call returns
\* for all frames (no exception leaves it), and once it has returned every
\* frame with no surviving contour has the NaN row while every other frame
\* has the features computed from its dominant contour.
C1_NeverAbortsBatch ==
    /\ pc # "seg_raised"
    /\ raised = "none"
    /\ pc = "seg_done" =>
          \A i \in Range(NFrames) :
              features[i] =
                  IF Contours(FrameMask(frames[i], args, i)) = {}
                  THEN NaNRow
                  ELSE im_moment_features(
                           MouseCnt(Contours(FrameMask(frames[i], args, i))))

\* ======================================================================
\* Bounding box of a mask: get_bbox
\* ======================================================================

\* side of the (square) masks of the bounding-box model
BboxSide == 3

RoiPixels == (0..(BboxSide - 1)) \X (0..(BboxSide - 1))
Rois == [RoiPixels -> {0, 1}]

SetMin(S) == CHOOSE m \in S : \A x \in S : m <= x
SetMax(S) == CHOOSE m \in S : \A x \in S : m >= x

\* y, x = np.where(roi > 0)
WhereY(roi) == {p[1] : p \in {q \in RoiPixels : roi[q] > 0}}
WhereX(roi) == {p[2] : p \in {q \in RoiPixels : roi[q] > 0}}

get_bbox_swapped(roi) ==
    IF WhereY(roi) = {} \/ WhereX(roi) = {}
    THEN None
    ELSE <<<<SetMin(WhereX(roi)), SetMin(WhereY(roi))>>,
           <<SetMax(WhereX(roi)), SetMax(WhereY(roi))>>>>

get_bbox(roi) ==
    IF WhereY(roi) = {} \/ WhereX(roi) = {}
    THEN None
    ELSE <<<<SetMin(WhereY(roi)), SetMin(WhereX(roi))>>,
           <<SetMax(WhereY(roi)), SetMax(WhereX(roi))>>>>

InitBbox ==
    /\ pc = "bbox_call"
    /\ args = None
    /\ frames \in Rois
    /\ features = None
    /\ idx = 0
    /\ out = None
    /\ raised = "none"

BboxCall ==
    /\ pc = "bbox_call"
    /\ out' = get_bbox(frames)
    /\ pc' = "bbox_done"
    /\ UNCHANGED <<args, frames, features, idx, raised>>

NextBbox == BboxCall

SpecBbox == InitBbox /\ [][NextBbox]_vars

NonZero(roi) == {p \in RoiPixels : roi[p] # 0}

\* C4: for a mask with a nonzero pixel get_bbox returns [[min row, min col],
\* [max row, max col]] over exactly the nonzero pixels: no nonzero pixel lies
\* outside the box and each of the four edges touches a nonzero pixel; for an
\* all-zero mask it returns None.
C4_BboxExact ==
    pc = "bbox_done" =>
        IF NonZero(frames) = {}
        THEN out = None
        ELSE /\ out # None
             /\ \A p \in NonZero(frames) :
                    /\ out[1][1] <= p[1] /\ p[1] <= out[2][1]
                    /\ out[1][2] <= p[2] /\ p[2] <= out[2][2]
             /\ \E p \in NonZero(frames) : p[1] = out[1][1]
             /\ \E p \in NonZero(frames) : p[1] = out[2][1]
             /\ \E p \in NonZero(frames) : p[2] = out[1][2]
             /\ \E p \in NonZero(frames) : p[2] = out[2][2]

\* a mask whose box is not square and touches no corner of the image at its
\* upper left: rows 1..1, columns 1..2
C4_Witness ==
    /\ pc = "bbox_done"
    /\ out = <<<<1, 1>>, <<1, 2>>>>

\* ======================================================================
\* Crop-rotate aligner: crop_and_rotate_frames
\* ======================================================================

\* frames.shape[1:] of the batches of the aligner model
FrameRows == 2
FrameCols == 3

\* crop_size settings (crop_size[0], crop_size[1]): square, even and odd, and
\* not square
CropSizes == {<<2, 2>>, <<3, 3>>, <<4, 4>>, <<2, 4>>}
\* centroid coordinates, in half pixels (a centroid is a ratio of moments and
\* need not be whole), inside and outside the frame
CropCoords == {-4, -1, 0, 1, 6}

\* rows of track features a frame can have
TrackRows ==
    {NaNRow} \cup
    {[centroid |-> <<x, y>>, orientation |-> 0, axis_length |-> <<2, 1>>] :
        x \in CropCoords, y \in CropCoords}

\* win = (crop_size[0] // 2, crop_size[1] // 2 + 1)
Win(cs) == <<cs[1] \div 2, cs[2] \div 2 + 1>>

\* use_frame.shape without the border of cv2.copyMakeBorder
UseFrameShape_unpadded(cs) == <<FrameRows, FrameCols>>

\* use_frame.shape after cv2.copyMakeBorder(frames[i], *border, ...) with
\* border = (top, bottom, left, right)
\*        = (crop_size[1], crop_size[1], crop_size[0], crop_size[0])
UseFrameShape(cs) == <<FrameRows + 2 * cs[2], FrameCols + 2 * cs[1]>>

\* .astype('int16') of a value given in half pixels: the fraction is dropped
\* (towards zero) and the result wraps to 16 bits
AsInt16(h) ==
    LET t == IF h >= 0 THEN h \div 2 ELSE -((-h) \div 2)
    IN  ((t + 32768) % 65536) - 32768

\* np.arange(c - win[0], c + win[1]).astype('int16') + offset, as <<first,
\* last>>: the win[0] + win[1] values c - win[0], c - win[0] + 1, ... grow,
\* and so do their integer parts
Arange(c, cs, offset) ==
    <<AsInt16(c - 2 * Win(cs)[1]) + offset,
      AsInt16(c - 2 * Win(cs)[1] + 2 * (Win(cs)[1] + Win(cs)[2] - 1)) + offset>>

\* rr (from centroid[i, 1]) and cc (from centroid[i, 0]) after the crop-size
\* offset
RR(row, cs) == Arange(row.centroid[2], cs, cs[1])
CC(row, cs) == Arange(row.centroid[1], cs, cs[2])

\* np.any(np.isnan(features['centroid'][i]))
CentroidIsNaN(row) == IsNaN(row.centroid[1]) \/ IsNaN(row.centroid[2])

\* the bounds check of proc.py 821-822 with > for >=
OutOfBounds_off_by_one(row, cs) ==
    \/ RR(row, cs)[2] > UseFrameShape(cs)[1]
    \/ RR(row, cs)[1] < 1
    \/ CC(row, cs)[2] > UseFrameShape(cs)[2]
    \/ CC(row, cs)[1] < 1

\* "Ensure centroids are in bounded frame" (the indices are consecutive, so
\* any() reduces to the first and the last one)
OutOfBounds(row, cs) ==
    \/ RR(row, cs)[2] >= UseFrameShape(cs)[1]
    \/ RR(row, cs)[1] < 1
    \/ CC(row, cs)[2] >= UseFrameShape(cs)[2]
    \/ CC(row, cs)[1] < 1

\* number of elements numpy's a[lo:hi] takes from an axis of length n
\* (negative indices count from the end, out-of-range ones are clipped)
SliceIndex(k, n) == IF k < 0 THEN Max2(k + n, 0) ELSE Min2(k, n)
SliceLen(lo, hi, n) == Max2(0, SliceIndex(hi, n) - SliceIndex(lo, n))

\* cropped_frames[i] as allocated by np.zeros
ZeroPatch(cs) == [shape |-> cs, kind |-> "zeros"]

\* cv2.warpAffine(use_frame[rr[0]:rr[-1], cc[0]:cc[-1]], rot_mat,
\* (crop_size[0], crop_size[1])): the source window it is given, and the
\* result, which has dsize = (width, height), i.e. crop_size[1] rows and
\* crop_size[0] columns
WarpAffine(row, cs) ==
    [shape |-> <<cs[2], cs[1]>>,
     kind |-> "warp",
     rows |-> RR(row, cs),
     cols |-> CC(row, cs),
     src_shape |-> <<SliceLen(RR(row, cs)[1], RR(row, cs)[2], UseFrameShape(cs)[1]),
                     SliceLen(CC(row, cs)[1], CC(row, cs)[2], UseFrameShape(cs)[2])>>,
     angle |-> NSub(0, row.orientation)]

\* numpy assignment dst[...] = src: src must broadcast to the shape of dst
Broadcasts(src, dst) ==
    /\ src[1] = dst[1] \/ src[1] = 1
    /\ src[2] = dst[2] \/ src[2] = 1

InitCrop ==
    /\ pc = "crop_loop"
    /\ args \in [crop_size : CropSizes]
    /\ frames = [shape |-> <<NFrames, FrameRows, FrameCols>>]
    /\ features \in [Range(NFrames) -> TrackRows]
    /\ idx = 1
    /\ out = [i \in Range(NFrames) |-> ZeroPatch(args.crop_size)]
    /\ raised = "none"

\* frame idx has a NaN centroid: continue
CropSkipNaN ==
    /\ pc = "crop_loop"
    /\ idx <= NFrames
    /\ CentroidIsNaN(features[idx])
    /\ idx' = idx + 1
    /\ UNCHANGED <<pc, args, frames, features, out, raised>>

\* the window of frame idx fails the bounds check: continue
CropSkipOutside ==
    /\ pc = "crop_loop"
    /\ idx <= NFrames
    /\ ~CentroidIsNaN(features[idx])
    /\ OutOfBounds(features[idx], args.crop_size)
    /\ idx' = idx + 1
    /\ UNCHANGED <<pc, args, frames, features, out, raised>>

\* the window of frame idx is cut, rotated and stored
CropFrame ==
    /\ pc = "crop_loop"
    /\ idx <= NFrames
    /\ ~CentroidIsNaN(features[idx])
    /\ ~OutOfBounds(features[idx], args.crop_size)
    /\ Broadcasts(WarpAffine(features[idx], args.crop_size).shape, args.crop_size)
    /\ out' = [out EXCEPT ![idx] =
                 [WarpAffine(features[idx], args.crop_size)
                     EXCEPT !.shape = args.crop_size]]
    /\ idx' = idx + 1
    /\ UNCHANGED <<pc, args, frames, features, raised>>

\* the rotated window does not fit cropped_frames[i] (crop_size not square):
\* the assignment raises
CropFrameRaises ==
    /\ pc = "crop_loop"
    /\ idx <= NFrames
    /\ ~CentroidIsNaN(features[idx])
    /\ ~OutOfBounds(features[idx], args.crop_size)
    /\ ~Broadcasts(WarpAffine(features[idx], args.crop_size).shape, args.crop_size)
    /\ pc' = "crop_raised"
    /\ raised' = "ValueError"
    /\ UNCHANGED <<args, frames, features, idx, out>>

CropReturn ==
    /\ pc = "crop_loop"
    /\ idx > NFrames
    /\ pc' = "crop_done"
    /\ UNCHANGED <<args, frames, features, idx, out, raised>>

NextCrop ==
    CropSkipNaN \/ CropSkipOutside \/ CropFrame \/ CropFrameRaises \/ CropReturn

SpecCrop == InitCrop /\ [][NextCrop]_vars

\* the crop window around the centroid of a frame reaches outside the padded
\* frame: one of its row or column indices is no index of use_frame
WindowOutside(row, cs) ==
    \/ RR(row, cs)[1] < 0
    \/ RR(row, cs)[2] >= UseFrameShape(cs)[1]
    \/ CC(row, cs)[1] < 0
    \/ CC(row, cs)[2] >= UseFrameShape(cs)[2]

MinHeight == 10
MaxHeight == 100

\* pixels of the frames of the scalar model, and their depth values
ScalarPixels == {1, 2}
ScalarHeights == {0, 20}
\* centroid coordinates of a track (pixels)
ScalarCoords == {0, 1, 2}

ScalarTrackRows ==
    {NaNRow} \cup
    {[centroid |-> <<x, y>>, orientation |-> 0, axis_length |-> <<4, 2>>] :
        x \in ScalarCoords, y \in ScalarCoords}

\* moseq2_extract.util.convert_pxs_to_mm: the perspective projection at the
\* camera's true depth, linear in the offset from the image centre with one
\* factor per axis
MmPerPxX == 2
MmPerPxY == 4
ImageCentre == 1
convert_pxs_to_mm(c) ==
    <<NMul(MmPerPxX, NSub(c[1], ImageCentre)),
      NMul(MmPerPxY, NSub(c[2], ImageCentre))>>

\* np.diff(np.concatenate((x[:1], x))) with a forward difference at frame 0
DiffPrepend_forward(x) ==
    [i \in DOMAIN x |->
        IF i = 1 THEN (IF 2 \in DOMAIN x THEN NSub(x[2], x[1]) ELSE NSub(x[1], x[1]))
        ELSE NSub(x[i], x[i - 1])]

\* np.diff(np.concatenate((x[:1], x)))
DiffPrepend(x) ==
    [i \in DOMAIN x |-> IF i = 1 THEN NSub(x[1], x[1]) ELSE NSub(x[i], x[i - 1])]

\* np.hypot without the second argument
Hypot2_x_only(a, b) == IF IsNaN(a) \/ IsNaN(b) THEN NaN ELSE a * a

\* np.hypot(a, b), and np.sqrt(np.square(a) + np.square(b) + np.square(c)):
\* a magnitude is kept as its square, which is exact in integers
Hypot2(a, b) == IF IsNaN(a) \/ IsNaN(b) THEN NaN ELSE a * a + b * b
Norm3Sq(a, b, c) ==
    IF IsNaN(a) \/ IsNaN(b) \/ IsNaN(c) THEN NaN ELSE a * a + b * b + c * c

\* np.min / np.max over the two axis lengths, np.mean over two factors
NMin2(a, b) == IF IsNaN(a) \/ IsNaN(b) THEN NaN ELSE Min2(a, b)
NMax2(a, b) == IF IsNaN(a) \/ IsNaN(b) THEN NaN ELSE Max2(a, b)
NMean2(a, b) == IF IsNaN(a) \/ IsNaN(b) THEN NaN ELSE (a + b) \div 2

\* masked_frames[i]: the pixels within the height band
Masked(frame) == {p \in DOMAIN frame : frame[p] > MinHeight /\ frame[p] < MaxHeight}

RECURSIVE SumOver(_, _)
SumOver(f, S) ==
    IF S = {} THEN 0
    ELSE LET p == CHOOSE q \in S : TRUE IN f[p] + SumOver(f, S \ {p})

\* features['height_ave_mm'][i]: the mean over the masked pixels, left at
\* zero when there are none
HeightAve(frame) ==
    IF Cardinality(Masked(frame)) > 0
    THEN SumOver(frame, Masked(frame)) \div Cardinality(Masked(frame))
    ELSE 0

compute_scalars(fr, tf) ==
    LET N == DOMAIN fr
        centroid_mm == [i \in N |-> convert_pxs_to_mm(tf[i].centroid)]
        centroid_mm_shift ==
            [i \in N |-> convert_pxs_to_mm(<<NAdd(tf[i].centroid[1], 1),
                                             NAdd(tf[i].centroid[2], 1)>>)]
        px_to_mm == [i \in N |->
                        <<NAbs(NSub(centroid_mm_shift[i][1], centroid_mm[i][1])),
                          NAbs(NSub(centroid_mm_shift[i][2], centroid_mm[i][2]))>>]
        centroid_x_px == [i \in N |-> tf[i].centroid[1]]
        centroid_y_px == [i \in N |-> tf[i].centroid[2]]
        centroid_x_mm == [i \in N |-> centroid_mm[i][1]]
        centroid_y_mm == [i \in N |-> centroid_mm[i][2]]
        width_px == [i \in N |-> NMin2(tf[i].axis_length[1], tf[i].axis_length[2])]
        length_px == [i \in N |-> NMax2(tf[i].axis_length[1], tf[i].axis_length[2])]
        area_px == [i \in N |-> Cardinality(Masked(fr[i]))]
        height_ave_mm == [i \in N |-> HeightAve(fr[i])]
        vel_x == DiffPrepend(centroid_x_px)
        vel_y == DiffPrepend(centroid_y_px)
        vel_z == DiffPrepend(height_ave_mm)
        vel_x_mm == DiffPrepend(centroid_x_mm)
        vel_y_mm == DiffPrepend(centroid_y_mm)
    IN  [centroid_x_px |-> centroid_x_px,
         centroid_y_px |-> centroid_y_px,
         velocity_2d_px |-> [i \in N |-> Hypot2(vel_x[i], vel_y[i])],
         velocity_3d_px |-> [i \in N |-> Norm3Sq(vel_x[i], vel_y[i], vel_z[i])],
         width_px |-> width_px,
         length_px |-> length_px,
         area_px |-> area_px,
         centroid_x_mm |-> centroid_x_mm,
         centroid_y_mm |-> centroid_y_mm,
         velocity_2d_mm |-> [i \in N |-> Hypot2(vel_x_mm[i], vel_y_mm[i])],
         velocity_3d_mm |-> [i \in N |-> Norm3Sq(vel_x_mm[i], vel_y_mm[i], vel_z[i])],
         width_mm |-> [i \in N |-> NMul(width_px[i], px_to_mm[i][2])],
         length_mm |-> [i \in N |-> NMul(length_px[i], px_to_mm[i][1])],
         area_mm |-> [i \in N |-> NMul(area_px[i], NMean2(px_to_mm[i][1], px_to_mm[i][2]))],
         height_ave_mm |-> height_ave_mm,
         angle |-> [i \in N |-> tf[i].orientation],
         \* np.arctan2(vel_y, vel_x), kept as its two arguments
         velocity_theta |-> [i \in N |-> <<vel_y_mm[i], vel_x_mm[i]>>]]

InitScalars ==
    /\ pc = "scalars_call"
    /\ args = [min_height |-> MinHeight, max_height |-> MaxHeight]
    /\ frames \in [Range(NFrames) -> [ScalarPixels -> ScalarHeights]]
    /\ features \in [Range(NFrames) -> ScalarTrackRows]
    /\ idx = 0
    /\ out = None
    /\ raised = "none"

ScalarsCall ==
    /\ pc = "scalars_call"
    /\ out' = compute_scalars(frames, features)
    /\ pc' = "scalars_done"
    /\ UNCHANGED <<args, frames, features, idx, raised>>

NextScalars == ScalarsCall

SpecScalars == InitScalars /\ [][NextScalars]_vars

\* the degenerate batch: all-zero frames with the features the segmenter
\* produces for them
AllZeroBatch ==
    /\ \A i \in Range(NFrames) : \A p \in ScalarPixels : frames[i][p] = 0
    /\ \A i \in Range(NFrames) : features[i] = NaNRow

\* C3: for an all-zero frame batch with NaN track features compute_scalars
\* returns without error and its velocity channels and area channels are
\* zero on every frame.
C3_DegenerateBatchZero ==
    (pc = "scalars_done" /\ AllZeroBatch) =>
        /\ raised = "none"
        /\ \A i \in Range(NFrames) :
              /\ out.velocity_2d_px[i] = 0
              /\ out.velocity_3d_px[i] = 0
              /\ out.velocity_2d_mm[i] = 0
              /\ out.velocity_3d_mm[i] = 0
              /\ out.area_px[i] = 0
              /\ out.area_mm[i] = 0

\* the track moves by the same step <<vx, vy>> between consecutive frames
ConstantStep(vx, vy) ==
    /\ \A i \in Range(NFrames) : features[i] # NaNRow
    /\ \A i \in 2..NFrames :
          /\ features[i].centroid[1] - features[i - 1].centroid[1] = vx
          /\ features[i].centroid[2] - features[i - 1].centroid[2] = vy

Steps == {a - b : a \in ScalarCoords, b \in ScalarCoords}

\* C5: for a centroid track that moves by the same pixel step (vx, vy)
\* between consecutive frames, velocity_2d_px[i] is sqrt(vx^2 + vy^2) for
\* every frame after the first (its square is vx^2 + vy^2).
C5_ConstantVelocity ==
    pc = "scalars_done" =>
        \A vx \in Steps, vy \in Steps :
            ConstantStep(vx, vy) =>
                \A i \in 2..NFrames : out.velocity_2d_px[i] = vx * vx + vy * vy

\* a track that moves diagonally
C5_Witness ==
    /\ pc = "scalars_done"
    /\ ConstantStep(1, -1)
    /\ out.velocity_2d_px[NFrames] = 2

\* C6 as claimed: for a track of at least two frames the velocity at frame 0
\* is the forward difference position[1] - position[0] (with height[1] -
\* height[0] in the 3D channels).
C6_FirstFrameForward ==
    (pc = "scalars_done" /\ NFrames >= 2
        /\ \A i \in Range(NFrames) : features[i] # NaNRow) =>
        /\ out.velocity_2d_px[1] =
              Hypot2(NSub(features[2].centroid[1], features[1].centroid[1]),
                     NSub(features[2].centroid[2], features[1].centroid[2]))
        /\ out.velocity_3d_px[1] =
              Norm3Sq(NSub(features[2].centroid[1], features[1].centroid[1]),
                      NSub(features[2].centroid[2], features[1].centroid[2]),
                      HeightAve(frames[2]) - HeightAve(frames[1]))

\* C6 as amended: the velocity at frame 0 is the difference of the position
\* series padded in front with its own first sample, position[0] -
\* position[0] (and height[0] - height[0]): zero in every velocity channel
\* when frame 0 has a centroid and NaN when it has none, whatever frame 1
\* holds; frame i >= 1 has the backward difference position[i] -
\* position[i-1].
C6_FirstFramePadded ==
    pc = "scalars_done" =>
        /\ \A ch \in {"velocity_2d_px", "velocity_3d_px",
                      "velocity_2d_mm", "velocity_3d_mm"} :
              out[ch][1] = IF features[1] = NaNRow THEN NaN ELSE 0
        /\ \A i \in 2..NFrames :
              /\ out.velocity_2d_px[i] =
                    Hypot2(NSub(features[i].centroid[1], features[i - 1].centroid[1]),
                           NSub(features[i].centroid[2], features[i - 1].centroid[2]))
              /\ out.velocity_3d_px[i] =
                    Norm3Sq(NSub(features[i].centroid[1], features[i - 1].centroid[1]),
                            NSub(features[i].centroid[2], features[i - 1].centroid[2]),
                            HeightAve(frames[i]) - HeightAve(frames[i - 1]))

\* a track that moves and rises between frame 0 and frame 1, with zero
\* velocity reported at frame 0
C6_Witness ==
    /\ pc = "scalars_done"
    /\ features[1] # NaNRow /\ features[2] # NaNRow
    /\ features[2].centroid # features[1].centroid
    /\ HeightAve(frames[2]) # HeightAve(frames[1])
    /\ out.velocity_2d_px[1] = 0
    /\ out.velocity_3d_px[1] = 0

\* ======================================================================
\* Temporal post-processor, Hampel stage: feature_hampel_filter
\* ======================================================================

\* samples per channel
HampelLen == 3

\* feature values of the Hampel model (in units fine enough that every
\* median the filter takes of them is whole); orientations are negative
HampelCoords == {0, 8}
HampelAngles == {-48, -40}
HampelRows ==
    {NaNRow} \cup
    {[centroid |-> <<x, y>>, orientation |-> o, axis_length |-> <<2, 1>>] :
        x \in HampelCoords, y \in HampelCoords, o \in HampelAngles}

\* a span setting: None, or <<k>> for the integer k
HampelSpans == {None, <<-1>>, <<0>>, <<2>>, <<3>>}
HampelSigs == {1, 3}
IsNone(v) == v = None
\* "span is not None and span > 0"
SpanOn(span) == ~IsNone(span) /\ span[1] > 0

\* np.pad(x, (h, h), 'constant', constant_values=np.nan) of a 1-based list
Pad(x, h) ==
    [k \in 1..(Len(x) + 2 * h) |->
        IF k <= h \/ k > Len(x) + h THEN NaN ELSE x[k - h]]

\* moseq2_extract.util.strided_app(a, L, 1): the windows a[k : k + L] of
\* length L, one per start k
StridedRows(a, L) == 1..((Len(a) - L) + 1)
strided_app(a, L) ==
    [k \in StridedRows(a, L) |-> [j \in 1..L |-> a[k + j - 1]]]

\* the values of a list that are not NaN, in order
RECURSIVE DropNaN(_)
DropNaN(w) ==
    IF w = <<>> THEN <<>>
    ELSE IF IsNaN(Head(w)) THEN DropNaN(Tail(w))
    ELSE <<Head(w)>> \o DropNaN(Tail(w))

\* ascending sort
RECURSIVE Sorted(_)
Sorted(w) ==
    IF w = <<>> THEN <<>>
    ELSE LET k == CHOOSE i \in 1..Len(w) : \A j \in 1..Len(w) : w[i] <= w[j]
         IN  <<w[k]>> \o Sorted([j \in 1..(Len(w) - 1) |->
                                    IF j < k THEN w[j] ELSE w[j + 1]])

\* np.nanmedian of one window: NaN for a window of NaNs only, the middle value
\* or the mean of the two middle values otherwise
NanMedian(w) ==
    LET v == Sorted(DropNaN(w))
        n == Len(v)
    IN  IF n = 0 THEN NaN
        ELSE IF n % 2 = 1 THEN v[(n + 1) \div 2]
        ELSE (v[n \div 2] + v[n \div 2 + 1]) \div 2

\* med and mad of the windows vws (proc.py 952-953, 964-965)
Med(vws) == [k \in DOMAIN vws |-> NanMedian(vws[k])]
Mad(vws) ==
    [k \in DOMAIN vws |->
        NanMedian([j \in DOMAIN vws[k] |-> NAbs(NSub(vws[k][j], Med(vws)[k]))])]

\* numpy's x - med of two lists raises unless the lengths agree (or one is 1)
SameShape(n, m) == n = m \/ n = 1 \/ m = 1

\* fill_idx = np.where(vals > med + sig * mad)[0] with
\* vals = np.abs(x - med)
FillIdx(x, med, mad, sig) ==
    {i \in DOMAIN x :
        NGt(NAbs(NSub(x[i], med[i])), NAdd(med[i], NMul(sig, mad[i])))}

\* one channel x filtered with windows of length span: x[fill_idx] =
\* med[fill_idx]
HampelChannel(x, span, sig) ==
    LET vws == strided_app(Pad(x, span \div 2), span)
        fill == FillIdx(x, Med(vws), Mad(vws), sig)
    IN  [i \in DOMAIN x |-> IF i \in fill THEN Med(vws)[i] ELSE x[i]]

\* the list of windows has one window per sample
WindowsFit(x, span) ==
    SameShape(Len(x), Cardinality(StridedRows(Pad(x, span \div 2), span)))

\* range(1): the centroid columns the loop of proc.py 950 visits
HampelColumns == {1}

\* the columns of the centroid and the orientation as lists
Column(f, c) == [i \in 1..HampelLen |-> f[i].centroid[c]]
Orientation(f) == [i \in 1..HampelLen |-> f[i].orientation]

HampelArgs ==
    [features : [1..HampelLen -> HampelRows],
     centroid_hampel_span : HampelSpans,
     angle_hampel_span : HampelSpans,
     hampel_sig : HampelSigs]

\* centroid_hampel_sig and angle_hampel_sig are set together
InitHampel ==
    /\ pc = "hampel_centroid"
    /\ args \in HampelArgs
    /\ frames = None
    /\ features = args.features
    /\ idx = 0
    \* out: whether the local padded_orientation is bound
    /\ out = <<FALSE>>
    /\ raised = "none"

\* the centroid block is switched off (proc.py 945)
HampelCentroidOff ==
    /\ pc = "hampel_centroid"
    /\ ~SpanOn(args.centroid_hampel_span)
    /\ pc' = "hampel_angle"
    /\ UNCHANGED <<args, frames, features, idx, out, raised>>

\* the centroid block with a span whose windows do not line up with the
\* samples: features['centroid'][:, i] - med raises (proc.py 954)
HampelCentroidMisfit ==
    /\ pc = "hampel_centroid"
    /\ SpanOn(args.centroid_hampel_span)
    /\ ~WindowsFit(Column(features, 1), args.centroid_hampel_span[1])
    /\ pc' = "hampel_raised"
    /\ raised' = "ValueError"
    /\ UNCHANGED <<args, frames, features, idx, out>>

\* the centroids after the loop of proc.py 950-956
FilteredCentroids(f, span, sig) ==
    [i \in 1..HampelLen |->
        [f[i] EXCEPT !.centroid =
            [c \in 1..2 |->
                IF c \in HampelColumns
                THEN HampelChannel(Column(f, c), span, sig)[i]
                ELSE f[i].centroid[c]]]]

\* the centroid block: the columns are filtered in place, then
\* padded_orientation is bound (proc.py 946-960)
HampelCentroid ==
    /\ pc = "hampel_centroid"
    /\ SpanOn(args.centroid_hampel_span)
    /\ WindowsFit(Column(features, 1), args.centroid_hampel_span[1])
    /\ features' = FilteredCentroids(features, args.centroid_hampel_span[1],
                                     args.hampel_sig)
    /\ IF IsNone(args.angle_hampel_span)
       THEN \* None // 2
            /\ pc' = "hampel_raised"
            /\ raised' = "TypeError"
            /\ UNCHANGED out
       ELSE IF args.angle_hampel_span[1] \div 2 < 0
       THEN \* np.pad with a negative width
            /\ pc' = "hampel_raised"
            /\ raised' = "ValueError"
            /\ UNCHANGED out
       ELSE /\ pc' = "hampel_angle"
            /\ out' = <<TRUE>>
            /\ UNCHANGED raised
    /\ UNCHANGED <<args, frames, idx>>

\* the orientation block is switched off (proc.py 962)
HampelAngleOff ==
    /\ pc = "hampel_angle"
    /\ ~SpanOn(args.angle_hampel_span)
    /\ pc' = "hampel_done"
    /\ UNCHANGED <<args, frames, features, idx, out, raised>>

\* the orientation block reads padded_orientation, which only the centroid
\* block binds (proc.py 963)
HampelAngleUnbound ==
    /\ pc = "hampel_angle"
    /\ SpanOn(args.angle_hampel_span)
    /\ out = <<FALSE>>
    /\ pc' = "hampel_raised"
    /\ raised' = "UnboundLocalError"
    /\ UNCHANGED <<args, frames, features, idx, out>>

HampelAngleMisfit ==
    /\ pc = "hampel_angle"
    /\ SpanOn(args.angle_hampel_span)
    /\ out = <<TRUE>>
    /\ ~WindowsFit(Orientation(features), args.angle_hampel_span[1])
    /\ pc' = "hampel_raised"
    /\ raised' = "ValueError"
    /\ UNCHANGED <<args, frames, features, idx, out>>

\* the orientation block (proc.py 963-968)
HampelAngle ==
    /\ pc = "hampel_angle"
    /\ SpanOn(args.angle_hampel_span)
    /\ out = <<TRUE>>
    /\ WindowsFit(Orientation(features), args.angle_hampel_span[1])
    /\ features' =
          [i \in 1..HampelLen |->
              [features[i] EXCEPT !.orientation =
                  HampelChannel(Orientation(features), args.angle_hampel_span[1],
                                args.hampel_sig)[i]]]
    /\ pc' = "hampel_done"
    /\ UNCHANGED <<args, frames, idx, out, raised>>

NextHampel ==
    \/ HampelCentroidOff \/ HampelCentroidMisfit \/ HampelCentroid
    \/ HampelAngleOff \/ HampelAngleUnbound \/ HampelAngleMisfit \/ HampelAngle

SpecHampel == InitHampel /\ [][NextHampel]_vars

\* the window medians and MADs of a channel as it was passed in
MedOf(x, span) == Med(strided_app(Pad(x, span \div 2), span))
MadOf(x, span) == Mad(strided_app(Pad(x, span \div 2), span))

\* sample i of x is an outlier: |x[i] - med_i| > sig * MAD_i
Outlier(x, span, sig, i) ==
    NGt(NAbs(NSub(x[i], MedOf(x, span)[i])), NMul(sig, MadOf(x, span)[i]))

\* C7: Hampel replacement rule: once feature_hampel_filter has returned,
\* every sample of a filtered channel (the centroid x column under a positive
\* centroid span, the orientation under a positive angle span) whose
\* distance from its window median exceeds sig times the window MAD has been
\* replaced by that median.
C7_OutliersReplaced ==
    pc = "hampel_done" =>
        /\ SpanOn(args.centroid_hampel_span) =>
              \A i \in 1..HampelLen :
                  Outlier(Column(args.features, 1), args.centroid_hampel_span[1],
                          args.hampel_sig, i)
                  => features[i].centroid[1] =
                        MedOf(Column(args.features, 1),
                              args.centroid_hampel_span[1])[i]
        /\ SpanOn(args.angle_hampel_span) =>
              \A i \in 1..HampelLen :
                  Outlier(Orientation(args.features), args.angle_hampel_span[1],
                          args.hampel_sig, i)
                  => features[i].orientation =
                        MedOf(Orientation(args.features),
                              args.angle_hampel_span[1])[i]

\* C8: the Hampel filter leaves non-outliers alone: once it has returned,
\* every sample of a filtered channel with |x[i] - med_i| <= sig * MAD_i has
\* the value it was passed in with.
C8_NonOutliersKept ==
    pc = "hampel_done" =>
        /\ SpanOn(args.centroid_hampel_span) =>
              \A i \in 1..HampelLen :
                  ~Outlier(Column(args.features, 1), args.centroid_hampel_span[1],
                           args.hampel_sig, i)
                  => features[i].centroid[1] = args.features[i].centroid[1]
        /\ SpanOn(args.angle_hampel_span) =>
              \A i \in 1..HampelLen :
                  ~Outlier(Orientation(args.features), args.angle_hampel_span[1],
                           args.hampel_sig, i)
                  => features[i].orientation = args.features[i].orientation

\* C9: Hampel channel coverage: once the filter has returned with a positive
\* centroid span, the correction has been applied to both centroid columns
\* (the y column is what the filter makes of the y column passed in, just as
\* the x column is), and with a positive angle span to the orientation.
C9_BothCentroidColumns ==
    pc = "hampel_done" =>
        /\ SpanOn(args.centroid_hampel_span) =>
              \A c \in 1..2 :
                  Column(features, c) =
                      HampelChannel(Column(args.features, c),
                                    args.centroid_hampel_span[1], args.hampel_sig)
        /\ SpanOn(args.angle_hampel_span) =>
              Orientation(features) =
                  HampelChannel(Orientation(args.features),
                                args.angle_hampel_span[1], args.hampel_sig)

\* a span setting the claim's switch is about: None, <= 0, or positive with
\* one window per sample
SwitchSpan(span) == ~SpanOn(span) \/ span[1] % 2 = 1

\* C10: Hampel no-op switch: for every combination of centroid and angle span
\* in {None, <= 0, positive} feature_hampel_filter returns without raising;
\* a channel whose span is None or <= 0 is returned unchanged, and the other
\* channel is filtered when its own span is positive.
C10_NoOpSwitch ==
    (SwitchSpan(args.centroid_hampel_span) /\ SwitchSpan(args.angle_hampel_span)) =>
        /\ pc # "hampel_raised"
        /\ pc = "hampel_done" =>
              /\ Column(features, 1) =
                    IF SpanOn(args.centroid_hampel_span)
                    THEN HampelChannel(Column(args.features, 1),
                                       args.centroid_hampel_span[1], args.hampel_sig)
                    ELSE Column(args.features, 1)
              /\ Orientation(features) =
                    IF SpanOn(args.angle_hampel_span)
                    THEN HampelChannel(Orientation(args.features),
                                       args.angle_hampel_span[1], args.hampel_sig)
                    ELSE Orientation(args.features)

\* ======================================================================
\* Confidence-weighted smoothing: model_smoother

\* frames per smoothed batch (the forward pass needs three to run at all)
SmLen == 3

\* feature values are multiples of a unit every blend of the two passes
\* divides exactly (one halving per blend, at most 2 * SmLen blends deep)
SmUnit == 2 ^ (2 * SmLen)

\* one frame of the feature dict: a 2D channel and a 1D channel
SmRows ==
    { [centroid |-> <<0, SmUnit>>, angle |-> 0],
      [centroid |-> <<NaN, 0>>, angle |-> SmUnit],
      [centroid |-> <<NaN, NaN>>, angle |-> NaN] }

\* the feature dict of a batch, channel by channel
SmFeatures(rows) ==
    [centroid |-> [i \in DOMAIN rows |-> rows[i].centroid],
     angle |-> [i \in DOMAIN rows |-> rows[i].angle]]

\* ll[i], the pixel log-likelihoods of frame i
LlFrames == {<<0, 0>>, <<0, 2>>, <<2, 2>>}
SmClips == {None, <<0, 2>>, <<2, 0>>, <<2, 2>>}

\* scipy's interp1d refuses fewer than minval points: 2 in the older
\* releases, 1 in the newer ones
InterpMinEntries == {1, 2}

SmArgs ==
    { [features |-> SmFeatures(rows), ll |-> ll, clips |-> c, minval |-> mv] :
        rows \in [Range(SmLen) -> SmRows],
        ll \in {None} \cup [Range(SmLen) -> LlFrames],
        c \in SmClips,
        mv \in InterpMinEntries }

PassThrough_strict(a) ==
    IF IsNone(a.ll) \/ IsNone(a.clips) THEN TRUE ELSE a.clips[1] > a.clips[2]

\* if ll is None or clips is None or (clips[0] >= clips[1])
PassThrough(a) ==
    IF IsNone(a.ll) \/ IsNone(a.clips) THEN TRUE ELSE a.clips[1] >= a.clips[2]

\* np.mean of one frame's log-likelihoods
LlMean(row) == SumOver(row, DOMAIN row) \div Len(row)

\* smoother = clip((mean - min_mu) / (max_mu - min_mu), 0, 1), kept as the
\* fraction <<numerator, denominator>> with a positive denominator; a zero
\* range divides to +-inf (clipped to 1 or 0) or to NaN
Smoother(row, clips) ==
    LET num == LlMean(row) - clips[1]
        den == clips[2] - clips[1]
        n == IF den < 0 THEN -num ELSE num
        d == Abs(den)
    IN IF den = 0
       THEN (IF num > 0 THEN <<1, 1>> ELSE IF num < 0 THEN <<0, 1>> ELSE <<NaN, 1>>)
       ELSE <<Max2(0, Min2(n, d)), d>>

AveLL(a) == [i \in DOMAIN a.ll |-> Smoother(a.ll[i], a.clips)]

\* (1 - smoother) * neighbour + smoother * current
Blend(w, nb, cur) ==
    IF IsNaN(w[1]) \/ IsNaN(nb) \/ IsNaN(cur) THEN NaN
    ELSE ((w[2] - w[1]) * nb + w[1] * cur) \div w[2]

\* xvec[~nans]: the frames of a column that hold a value
NotNaN(c) == {i \in DOMAIN c : ~IsNaN(c[i])}

\* the k-th smallest element of a set of frame indices
Kth(S, k) == CHOOSE x \in S : Cardinality({y \in S : y < x}) = k - 1

\* interp1d(kind='nearest'): searchsorted(x_bds, x_new, side='left') over the
\* midpoints x_bds of consecutive points, clipped to the last point, so a
\* frame midway between two points takes the earlier one
InterpNearest(S, j) ==
    LET m == Cardinality(S)
        below == {k \in 1..(m - 1) : Kth(S, k) + Kth(S, k + 1) < 2 * j}
    IN Kth(S, Min2(Cardinality(below) + 1, m))

\* one interp1d construction and call on a column: ValueError when the
\* column has fewer points than interp1d accepts, else the NaN entries
\* take the value of the nearest point
FillColumn(c, minval) ==
    LET X == NotNaN(c) IN
    IF Cardinality(X) < minval
    THEN [raised |-> TRUE, v |-> c]
    ELSE [raised |-> FALSE,
          v |-> [i \in DOMAIN c |-> IF IsNaN(c[i]) THEN c[InterpNearest(X, i)] ELSE c[i]]]

SmColumn(v, k) == [i \in DOMAIN v |-> v[i][k]]
HasNaN2D(v) == \E i \in DOMAIN v : \E k \in DOMAIN v[i] : IsNaN(v[i][k])
HasNaN1D(v) == \E i \in DOMAIN v : IsNaN(v[i])

\* the ndims == 2 branch: the columns in order, in place, up to the first
\* column interp1d refuses
Fill2D(v, minval) ==
    LET c1 == FillColumn(SmColumn(v, 1), minval)
        v1 == [i \in DOMAIN v |-> <<c1.v[i], v[i][2]>>]
        c2 == FillColumn(SmColumn(v1, 2), minval)
    IN IF ~HasNaN2D(v) THEN [raised |-> FALSE, v |-> v]
       ELSE IF c1.raised THEN [raised |-> TRUE, v |-> v]
       ELSE IF c2.raised THEN [raised |-> TRUE, v |-> v1]
       ELSE [raised |-> FALSE, v |-> [i \in DOMAIN v |-> <<c1.v[i], c2.v[i]>>]]

\* the 1D branch
Fill1D(v, minval) ==
    IF ~HasNaN1D(v) THEN [raised |-> FALSE, v |-> v] ELSE FillColumn(v, minval)

\* features.items(), in the order the channels were inserted
SmChannels == <<"centroid", "angle">>

FillChannel(f, k, minval) ==
    IF k = "centroid" THEN Fill2D(f[k], minval) ELSE Fill1D(f[k], minval)

\* features[k][i] = (1 - smoother) * v[nb] + smoother * v[i], every channel
BlendFrame(f, w, i, nb) ==
    [centroid |-> [f.centroid EXCEPT ![i] =
                      <<Blend(w, f.centroid[nb][1], f.centroid[i][1]),
                        Blend(w, f.centroid[nb][2], f.centroid[i][2])>>],
     angle |-> [f.angle EXCEPT ![i] = Blend(w, f.angle[nb], f.angle[i])]]

\* range(2, len(ave_ll)), as 1-based frame numbers
ForwardFirst == 3

InitSmoother ==
    /\ pc = "start"
    /\ args \in SmArgs
    /\ frames = <<>>
    /\ features = args.features
    /\ idx = 0
    /\ out = <<>>
    /\ raised = "none"

\* the early return
SmootherPassThrough ==
    /\ pc = "start"
    /\ PassThrough(args)
    /\ pc' = "done"
    /\ UNCHANGED <<args, frames, features, idx, out, raised>>

\* the ave_ll loop
SmootherWeights ==
    /\ pc = "start"
    /\ ~PassThrough(args)
    /\ out' = AveLL(args)
    /\ pc' = "fill"
    /\ idx' = 1
    /\ UNCHANGED <<args, frames, features, raised>>

\* one channel of the NaN filling loop
SmootherFill ==
    /\ pc = "fill"
    /\ idx <= Len(SmChannels)
    /\ LET k == SmChannels[idx]
           r == FillChannel(features, k, args.minval)
       IN /\ features' = [features EXCEPT ![k] = r.v]
          /\ IF r.raised
             THEN /\ raised' = "ValueError"
                  /\ pc' = "done"
                  /\ idx' = idx
             ELSE /\ raised' = raised
                  /\ pc' = IF idx = Len(SmChannels) THEN "forward" ELSE "fill"
                  /\ idx' = IF idx = Len(SmChannels) THEN ForwardFirst ELSE idx + 1
    /\ UNCHANGED <<args, frames, out>>

\* one frame of the forward pass
SmootherForward ==
    /\ pc = "forward"
    /\ idx <= Len(out)
    /\ features' = BlendFrame(features, out[idx], idx, idx - 1)
    /\ idx' = idx + 1
    /\ UNCHANGED <<pc, args, frames, out, raised>>

SmootherForwardEnd ==
    /\ pc = "forward"
    /\ idx > Len(out)
    /\ pc' = "backward"
    /\ idx' = Len(out) - 1
    /\ UNCHANGED <<args, frames, features, out, raised>>

\* one frame of the backward pass
SmootherBackward ==
    /\ pc = "backward"
    /\ idx >= 1
    /\ features' = BlendFrame(features, out[idx], idx, idx + 1)
    /\ idx' = idx - 1
    /\ UNCHANGED <<pc, args, frames, out, raised>>

SmootherReturn ==
    /\ pc = "backward"
    /\ idx < 1
    /\ pc' = "done"
    /\ UNCHANGED <<args, frames, features, idx, out, raised>>

NextSmoother ==
    \/ SmootherPassThrough
    \/ SmootherWeights
    \/ SmootherFill
    \/ SmootherForward
    \/ SmootherForwardEnd
    \/ SmootherBackward
    \/ SmootherReturn

SpecSmoother == InitSmoother /\ [][NextSmoother]_vars

\* C11: a call with ll None, clips None or clips[0] >= clips[1] returns the
\* features it was given, every channel value unchanged (NaN included), and
\* does not raise.
C11_PassThroughUnchanged ==
    LET disabled == IF IsNone(args.ll) \/ IsNone(args.clips) THEN TRUE
                    ELSE args.clips[1] >= args.clips[2]
    IN (pc = "done" /\ disabled) =>
          /\ raised = "none"
          /\ features = args.features

\* a returned pass-through call with ll and clips given, non-increasing
\* clips, and a NaN in a channel
C11_Witness ==
    /\ pc = "done"
    /\ ~IsNone(args.ll)
    /\ ~IsNone(args.clips)
    /\ args.clips[1] >= args.clips[2]
    /\ HasNaN1D(args.features.angle)
    /\ features = args.features

\* the channels after the NaN filling of a call that does not raise
SmFilled(a) ==
    [centroid |-> Fill2D(a.features.centroid, a.minval).v,
     angle |-> Fill1D(a.features.angle, a.minval).v]

RECURSIVE ForwardFrom(_, _, _)
ForwardFrom(f, w, i) ==
    IF i > Len(w) THEN f ELSE ForwardFrom(BlendFrame(f, w[i], i, i - 1), w, i + 1)

RECURSIVE BackwardFrom(_, _, _)
BackwardFrom(f, w, i) ==
    IF i < 1 THEN f ELSE BackwardFrom(BlendFrame(f, w[i], i, i + 1), w, i - 1)

\* C12: an active call returns, in every channel, the result of a forward
\* pass over every frame with a predecessor (from the second frame on, in
\* increasing order, each blended with its already-updated predecessor)
\* followed by a backward pass over every frame with a successor.
C12_BlendsEveryFrame ==
    (pc = "done" /\ ~PassThrough(args) /\ raised = "none") =>
        features = BackwardFrom(ForwardFrom(SmFilled(args), out, 2), out, Len(out) - 1)

\* the points of a column nearest to frame i
NearestFrames(c, i) ==
    {j \in NotNaN(c) : \A k \in NotNaN(c) : Abs(j - i) <= Abs(k - i)}

NearestFilled(c, d) ==
    \A i \in DOMAIN c :
        IF IsNaN(c[i]) THEN \E j \in NearestFrames(c, i) : d[i] = c[j]
        ELSE d[i] = c[i]

\* C13: an active call never raises, whatever the NaN pattern of a channel
\* (an all-NaN channel or column included), and when the filling is over
\* every NaN entry holds the value of the nearest non-NaN frame of its
\* column.
C13_NaNFilledNoRaise ==
    ~PassThrough(args) =>
        /\ raised = "none"
        /\ (pc = "forward" /\ idx = ForwardFirst) =>
              /\ NearestFilled(args.features.angle, features.angle)
              /\ \A k \in 1..2 :
                    NearestFilled(SmColumn(args.features.centroid, k),
                                  SmColumn(features.centroid, k))

\* ======================================================================
\* Orientation corrector: get_flips

\* frames per classified batch
FlipLen == 2

\* r x c of the cropped frames
FlipCrops == {<<2, 2>>, <<3, 3>>}

\* one row of predict_proba, in tenths, a column per entry of classes_
ProbaRows == {<<10, 0>>, <<4, 6>>, <<5, 5>>}

\* the loaded classifier: its sorted classes_, the feature count it was
\* fitted on, whether the build still has the n_features_ attribute, and
\* what it predicts for the batch
FlipClassifiers(n) ==
    [classes_ : {<<0, 1>>, <<1, 2>>},
     n_features : {4},
     has_n_features_ : BOOLEAN,
     proba : [Range(n) -> ProbaRows]]

\* medfilt kernel sizes: None, 0, odd, even
FlipSmoothings == {None, <<0>>, <<3>>, <<5>>, <<2>>}

FlipArgs ==
    UNION { [n : {n}, crop : FlipCrops, file_ok : BOOLEAN,
             clf : FlipClassifiers(n), smoothing : FlipSmoothings] :
            n \in 1..FlipLen }

\* np.where(clf.classes_ == 1)[0], as 1-based column numbers
FlipClass(clf) == {k \in DOMAIN clf.classes_ : clf.classes_[k] = 1}

\* predict_proba accepts frames.reshape((-1, r * c)) only with the feature
\* count the classifier was fitted on
PredictAccepts(a) == a.crop[1] * a.crop[2] = a.clf.n_features

DefaultProbas_swapped(n) == [i \in Range(n) |-> <<1, 0>>]

\* np.array([[0]*len(frames), [1]*len(frames)]).T
DefaultProbas(n) == [i \in Range(n) |-> <<0, 1>>]

\* "if smoothing"
SmoothingOn(s) == ~IsNone(s) /\ s[1] # 0

\* scipy.signal.medfilt(x, k): the median of the k samples around each
\* sample of the zero-padded signal
MedFilt(x, k) ==
    LET h == k \div 2
        padded == [j \in 1..(Len(x) + 2 * h) |->
                      IF j <= h \/ j > Len(x) + h THEN 0 ELSE x[j - h]]
    IN [i \in DOMAIN x |-> Sorted([j \in 1..k |-> padded[i + j - 1]])[h + 1]]

\* probas[:, c] = medfilt(probas[:, c], smoothing)
SmoothColumn(p, c, k) ==
    LET col == MedFilt([i \in DOMAIN p |-> p[i][c]], k)
    IN [i \in DOMAIN p |-> [p[i] EXCEPT ![c] = col[i]]]

\* argmax of one row: the first column holding the maximum
ArgMax(row) ==
    CHOOSE k \in DOMAIN row :
        /\ \A j \in DOMAIN row : row[j] <= row[k]
        /\ \A j \in DOMAIN row : j < k => row[j] < row[k]

\* probas.argmax(axis=1) == flip_class
Flips(p, fc) == [i \in DOMAIN p |-> ArgMax(p[i]) \in fc]

InitFlips ==
    /\ pc = "start"
    /\ args \in FlipArgs
    /\ frames = args.crop
    /\ features = <<>>
    /\ idx = 0
    /\ out = [probas |-> <<>>, flips |-> <<>>, rejected |-> FALSE]
    /\ raised = "none"

\* joblib.load
FlipsLoad ==
    /\ pc = "start"
    /\ args.file_ok
    /\ pc' = "predict"
    /\ UNCHANGED <<args, frames, features, idx, out, raised>>

FlipsLoadRaises ==
    /\ pc = "start"
    /\ ~args.file_ok
    /\ raised' = "IOError"
    /\ pc' = "done"
    /\ UNCHANGED <<args, frames, features, idx, out>>

FlipsPredict ==
    /\ pc = "predict"
    /\ PredictAccepts(args)
    /\ out' = [out EXCEPT !.probas = args.clf.proba]
    /\ pc' = "smooth"
    /\ idx' = 1
    /\ UNCHANGED <<args, frames, features, raised>>

\* the except ValueError branch
FlipsPredictRejected ==
    /\ pc = "predict"
    /\ ~PredictAccepts(args)
    /\ args.clf.has_n_features_
    /\ out' = [out EXCEPT !.probas = DefaultProbas(args.n), !.rejected = TRUE]
    /\ pc' = "smooth"
    /\ idx' = 1
    /\ UNCHANGED <<args, frames, features, raised>>

\* the except branch reads clf.n_features_
FlipsPredictRejectedRaises ==
    /\ pc = "predict"
    /\ ~PredictAccepts(args)
    /\ ~args.clf.has_n_features_
    /\ out' = [out EXCEPT !.rejected = TRUE]
    /\ raised' = "AttributeError"
    /\ pc' = "done"
    /\ UNCHANGED <<args, frames, features, idx>>

FlipsSmoothOff ==
    /\ pc = "smooth"
    /\ ~SmoothingOn(args.smoothing)
    /\ pc' = "compare"
    /\ UNCHANGED <<args, frames, features, idx, out, raised>>

\* one column of the smoothing loop
FlipsSmoothColumn ==
    /\ pc = "smooth"
    /\ SmoothingOn(args.smoothing)
    /\ args.smoothing[1] % 2 = 1
    /\ out' = [out EXCEPT !.probas = SmoothColumn(@, idx, args.smoothing[1])]
    /\ idx' = idx + 1
    /\ pc' = IF idx = 2 THEN "compare" ELSE "smooth"
    /\ UNCHANGED <<args, frames, features, raised>>

\* medfilt refuses an even kernel
FlipsSmoothRaises ==
    /\ pc = "smooth"
    /\ SmoothingOn(args.smoothing)
    /\ args.smoothing[1] % 2 = 0
    /\ raised' = "ValueError"
    /\ pc' = "done"
    /\ UNCHANGED <<args, frames, features, idx, out>>

FlipsReturn ==
    /\ pc = "compare"
    /\ out' = [out EXCEPT !.flips = Flips(out.probas, FlipClass(args.clf))]
    /\ pc' = "done"
    /\ UNCHANGED <<args, frames, features, idx, raised>>

NextFlips ==
    \/ FlipsLoad
    \/ FlipsLoadRaises
    \/ FlipsPredict
    \/ FlipsPredictRejected
    \/ FlipsPredictRejectedRaises
    \/ FlipsSmoothOff
    \/ FlipsSmoothColumn
    \/ FlipsSmoothRaises
    \/ FlipsReturn

SpecFlips == InitFlips /\ [][NextFlips]_vars

\* C14: once predict_proba has rejected the patch shape, get_flips does not
\* raise and returns a flag that is False on every frame, wherever class 1
\* sits in classes_, without smoothing or with a median filter of odd size
\* (stated for the builds whose classifier has the n_features_ attribute the
\* warning prints).
C14_RejectedMeansNoFlips ==
    (/\ out.rejected
     /\ args.clf.has_n_features_
     /\ SmoothingOn(args.smoothing) => args.smoothing[1] % 2 = 1) =>
        /\ raised = "none"
        /\ pc = "done" => \A i \in Range(args.n) : out.flips[i] = FALSE

\* ======================================================================
\* Floor ellipse of the object-removal background: get_floor_ellipse

\* candidate ellipses an edge image can hold
MaxCands == 2
\* retries of the threshold backoff the model tells apart: past threshold 0
\* a run of hough_ellipse cannot differ any more (accumulator scores are
\* counts), the code goes on lowering it all the same
RetryCap == 7

\* a candidate of hough_ellipse: its accumulator score, its centre row as
\* identity, and its two axes in half pixels
CandAxes == {<<60, 58>>, <<60, 40>>, <<40, 60>>, <<51, 46>>}
Cands == [accumulator : {40, 260}, yc : {1}, axes : CandAxes]

\* result.sort(order='accumulator'): ascending, ties in any order
SortedByAccumulator(r) ==
    \A i \in 1..(Len(r) - 1) : r[i].accumulator <= r[i + 1].accumulator

\* what the edge image holds, as hough_ellipse would list it at threshold 0
EdgeImages ==
    { r \in UNION { [1..n -> Cands] : n \in 0..MaxCands } : SortedByAccumulator(r) }

\* e_threshold, in hundredths
EThresholds == {45, 80}

\* hough_ellipse(edges, threshold=t) then sort: the candidates whose
\* accumulator exceeds t
RECURSIVE hough_ellipse(_, _)
hough_ellipse(edges, t) ==
    IF edges = <<>> THEN <<>>
    ELSE IF Head(edges).accumulator > t
         THEN <<Head(edges)>> \o hough_ellipse(Tail(edges), t)
         ELSE hough_ellipse(Tail(edges), t)

\* thresh after k passes of "thresh -= 50" from 250
Thresh(k) == 250 - 50 * k

\* int(round(x)) of an axis given in half pixels: halves go to the even
\* neighbour
RoundHalf(h) ==
    IF h % 2 = 0 THEN h \div 2
    ELSE IF ((h - 1) \div 2) % 2 = 0 THEN (h - 1) \div 2 ELSE (h + 1) \div 2

\* yc, a, b = [int(round(x)) for x in best[1:5]]
Rounded(c) == [yc |-> c.yc, a |-> RoundHalf(c.axes[1]), b |-> RoundHalf(c.axes[2])]

\* without the inversion a ratio above 1 gives sqrt of a negative number,
\* NaN, and NaN > e_threshold is False
TooEccentric_unflipped(p, et) ==
    LET num == p.b * p.b
        den == p.a * p.a
    IN IF num > den THEN FALSE
       ELSE (den - num) * 10000 > et * et * den

\* ratio_best = b**2 / a**2, inverted when above 1;
\* ecc_current = sqrt(1 - ratio_best) > e_threshold
TooEccentric(p, et) ==
    LET flipped == p.b * p.b > p.a * p.a
        num == IF flipped THEN p.a * p.a ELSE p.b * p.b
        den == IF flipped THEN p.b * p.b ELSE p.a * p.a
    IN (den - num) * 10000 > et * et * den

\* result[ii] for ii = -1, -2, ...
FromEnd(r, ii) == r[Len(r) + 1 - ii]

InitEllipse ==
    /\ pc = "hough"
    /\ args \in [edges : EdgeImages, e_threshold : EThresholds]
    /\ frames = <<>>
    /\ features = <<>>
    /\ idx = 0
    /\ out = [result |-> <<>>, ii |-> 0, cur |-> None, ret |-> None]
    /\ raised = "none"

\* the first hough_ellipse run, at threshold 250
EllipseHough ==
    /\ pc = "hough"
    /\ out' = [out EXCEPT !.result = hough_ellipse(args.edges, Thresh(0))]
    /\ pc' = "retry"
    /\ UNCHANGED <<args, frames, features, idx, raised>>

\* "while len(result) == 0: thresh -= 50"; the thresholds from
\* Thresh(RetryCap) down lie below every accumulator score and are all
\* alike, the model keeps them as one
EllipseLower ==
    /\ pc = "retry"
    /\ Len(out.result) = 0
    /\ idx' = Min2(idx + 1, RetryCap)
    /\ pc' = "rerun"
    /\ UNCHANGED <<args, frames, features, out, raised>>

\* the hough_ellipse run of the loop body
EllipseRerun ==
    /\ pc = "rerun"
    /\ out' = [out EXCEPT !.result = hough_ellipse(args.edges, Thresh(idx))]
    /\ pc' = "retry"
    /\ UNCHANGED <<args, frames, features, idx, raised>>

\* best = result[-1]
EllipseBest ==
    /\ pc = "retry"
    /\ Len(out.result) > 0
    /\ out' = [out EXCEPT !.ii = 1, !.cur = Rounded(FromEnd(out.result, 1))]
    /\ pc' = "select"
    /\ UNCHANGED <<args, frames, features, idx, raised>>

\* one pass of "while ecc_current > e_threshold"
EllipseNext ==
    /\ pc = "select"
    /\ TooEccentric(out.cur, args.e_threshold)
    /\ out.ii < Len(out.result)
    /\ out' = [out EXCEPT !.ii = out.ii + 1,
                          !.cur = Rounded(FromEnd(out.result, out.ii + 1))]
    /\ UNCHANGED <<pc, args, frames, features, idx, raised>>

\* result[ii] past the first entry
EllipseNextRaises ==
    /\ pc = "select"
    /\ TooEccentric(out.cur, args.e_threshold)
    /\ out.ii = Len(out.result)
    /\ raised' = "IndexError"
    /\ pc' = "done"
    /\ UNCHANGED <<args, frames, features, idx, out>>

EllipseReturn ==
    /\ pc = "select"
    /\ ~TooEccentric(out.cur, args.e_threshold)
    /\ out' = [out EXCEPT !.ret = out.cur]
    /\ pc' = "done"
    /\ UNCHANGED <<args, frames, features, idx, raised>>

NextEllipse ==
    \/ EllipseHough
    \/ EllipseLower
    \/ EllipseRerun
    \/ EllipseBest
    \/ EllipseNext
    \/ EllipseNextRaises
    \/ EllipseReturn

SpecEllipse == InitEllipse /\ [][NextEllipse]_vars

\* the call runs on: every step the code can take is eventually taken
SpecEllipseFair == SpecEllipse /\ WF_vars(NextEllipse)

\* C15: the threshold backoff ends for every floor mask: the call comes to
\* hold at least one candidate, or it stops with an error.
C15_SearchTerminates ==
    <>(Len(out.result) > 0 \/ raised # "none" \/ pc = "done")

\* the eccentricity of an ellipse with axes a and b exceeds et hundredths:
\* sqrt(1 - min(a,b)^2 / max(a,b)^2) > et / 100
EccentricityAbove(p, et) ==
    LET lo == Min2(p.a, p.b)
        hi == Max2(p.a, p.b)
    IN 10000 * (hi * hi - lo * lo) > et * et * hi * hi

MaskOf(S) == [p \in RoiPixels |-> IF p \in S THEN 1 ELSE 0]
PixelsOf(roi) == {p \in RoiPixels : roi[p] > 0}

\* bin_im = dist_ims < noise_tolerance: the pixels near the fitted plane;
\* images of up to two pixels, a ring around a hole, three single pixels,
\* and a corner with a single pixel
ShapedImages ==
    { {<<0, 1>>, <<1, 0>>, <<1, 2>>, <<2, 1>>},
      {<<0, 0>>, <<0, 2>>, <<2, 0>>},
      {<<0, 0>>, <<0, 1>>, <<1, 0>>, <<2, 2>>} }
BinImages == {S \in SUBSET RoiPixels : Cardinality(S) <= 2} \cup ShapedImages

\* bg_roi_weights, in tenths
RoiWeights == {<<10, 1, 10>>, <<10, 0, 0>>}

\* strel_dilate / dilate_iterations / strel_erode / erode_iterations: a
\* structuring element is None or the side of a rectangle
RoiMorphs ==
    { [strel_dilate |-> <<3>>, dilate_iterations |-> 0,
       strel_erode |-> None, erode_iterations |-> 0],
      [strel_dilate |-> <<3>>, dilate_iterations |-> 1,
       strel_erode |-> None, erode_iterations |-> 0],
      [strel_dilate |-> None, dilate_iterations |-> 0,
       strel_erode |-> <<3>>, erode_iterations |-> 1] }

\* overlap_roi: None, or <<mask>>
OverlapRois == {None, <<{<<0, 0>>}>>, <<{<<1, 2>>, <<2, 2>>}>>}

RoiArgs ==
    [bin_im : BinImages, bg_roi_weights : RoiWeights, morph : RoiMorphs,
     bg_roi_fill_holes : BOOLEAN, overlap_roi : OverlapRois,
     get_all_data : BOOLEAN]

\* skimage.measure.label: the 8-connected regions, labelled in raster order
\* of their first pixels
RoiRaster(p) == BboxSide * p[1] + p[2]
RoiFirst(c) == CHOOSE n \in {RoiRaster(p) : p \in c} : \A p \in c : n <= RoiRaster(p)
RegionSet(S) == {Grow8({p}, S) : p \in S}
RegionProps(S) ==
    LET R == RegionSet(S)
    IN [k \in 1..Cardinality(R) |->
          CHOOSE c \in R : Cardinality({d \in R : RoiFirst(d) < RoiFirst(c)}) = k - 1]

\* props.area
RegionArea(c) == Cardinality(c)
\* props.extent = area / bounding box area, as <<numerator, denominator>>
RegionExtent(c) ==
    LET ys == {p[1] : p \in c}
        xs == {p[2] : p \in c}
    IN <<Cardinality(c),
         (SetMax(ys) - SetMin(ys) + 1) * (SetMax(xs) - SetMin(xs) + 1)>>
\* the largest distance of a pixel from center = shape / 2; kept squared and
\* in half pixels (the square root does not change the order of distances)
RegionDist(c) ==
    SetMax({(2 * p[1] - BboxSide) * (2 * p[1] - BboxSide)
            + (2 * p[2] - BboxSide) * (2 * p[2] - BboxSide) : p \in c})

\* areas, extents, dists of the regions
RegionFeatures(regs) ==
    [areas |-> [k \in DOMAIN regs |-> RegionArea(regs[k])],
     extents |-> [k \in DOMAIN regs |-> RegionExtent(regs[k])],
     dists |-> [k \in DOMAIN regs |-> RegionDist(regs[k])]]

\* scipy.stats.rankdata(x, method='max'): the number of entries <= x[i]
RankNeg(x, i) == Cardinality({j \in DOMAIN x : x[j] >= x[i]})
RankNegFrac(x, i) ==
    Cardinality({j \in DOMAIN x : x[j][1] * x[i][2] >= x[i][1] * x[j][2]})
RankPos(x, i) == Cardinality({j \in DOMAIN x : x[j] <= x[i]})

Ranks_raw_area(f) ==
    [k \in DOMAIN f.areas |->
        <<RankPos(f.areas, k), RankNegFrac(f.extents, k), RankPos(f.dists, k)>>]

\* ranks = vstack(rankdata(-areas), rankdata(-extents), rankdata(dists)),
\* one column per region
Ranks(f) ==
    [k \in DOMAIN f.areas |->
        <<RankNeg(f.areas, k), RankNegFrac(f.extents, k), RankPos(f.dists, k)>>]

\* np.mean(ranks * weight_array[:, newaxis], 0): a third of the weighted
\* sum, kept as the sum (in tenths)
ShapeScores(f, w) ==
    [k \in DOMAIN f.areas |->
        w[1] * Ranks(f)[k][1] + w[2] * Ranks(f)[k][2] + w[3] * Ranks(f)[k][3]]

\* .argsort(): a permutation putting the scores in non-decreasing order;
\* the order of equal scores is the sort kernel's choice
ArgSorts(s) ==
    { p \in [DOMAIN s -> DOMAIN s] :
        /\ \A i, j \in DOMAIN s : i # j => p[i] # p[j]
        /\ \A i, j \in DOMAIN s : i < j => s[p[i]] <= s[p[j]] }

\* the 3 x 3 neighbourhood of a pixel
Around(p) == {q \in RoiPixels : Abs(p[1] - q[1]) <= 1 /\ Abs(p[2] - q[2]) <= 1}

\* cv2.dilate / cv2.erode with a 3 x 3 rectangle; zero iterations leave the
\* image as it is, and pixels outside the image never block an erosion
RECURSIVE Dilate(_, _)
Dilate(S, n) ==
    IF n = 0 THEN S
    ELSE Dilate({p \in RoiPixels : Around(p) \cap S # {}}, n - 1)
RECURSIVE Erode(_, _)
Erode(S, n) ==
    IF n = 0 THEN S
    ELSE Erode({p \in RoiPixels : Around(p) \subseteq S}, n - 1)

\* binary_fill_holes: the background pixels that no 4-connected background
\* path joins to the image border become foreground
OnBorder(p) ==
    p[1] = 0 \/ p[2] = 0 \/ p[1] = BboxSide - 1 \/ p[2] = BboxSide - 1
FillHoles(S) ==
    LET bg == RoiPixels \ S
        outside == Grow4({q \in bg : OnBorder(q)}, bg)
    IN RoiPixels \ outside

\* the body of "for shape in shape_index" up to the roi
ShapeRoi(c, a) ==
    LET d == IF IsNone(a.morph.strel_dilate) THEN c
             ELSE Dilate(c, a.morph.dilate_iterations)
        e == IF IsNone(a.morph.strel_erode) THEN d
             ELSE Erode(d, a.morph.erode_iterations)
    IN MaskOf(IF a.bg_roi_fill_holes THEN FillHoles(e) ELSE e)

\* np.sum(np.logical_and(overlap_roi, roi))
Overlap(ov, roi) == Cardinality(ov \cap PixelsOf(roi))

ArgMaxFirst_min(x) ==
    CHOOSE k \in DOMAIN x :
        /\ \A j \in DOMAIN x : x[j] >= x[k]
        /\ \A j \in DOMAIN x : j < k => x[j] > x[k]

\* np.argmax: the first index of the maximum
ArgMaxFirst(x) ==
    CHOOSE k \in DOMAIN x :
        /\ \A j \in DOMAIN x : x[j] <= x[k]
        /\ \A j \in DOMAIN x : j < k => x[j] < x[k]

\* del lst[k]
DelAt(lst, k) ==
    [j \in 1..(Len(lst) - 1) |-> IF j < k THEN lst[j] ELSE lst[j + 1]]

InitRoi ==
    /\ pc = "label"
    /\ args \in RoiArgs
    /\ frames = MaskOf(args.bin_im)
    /\ features = <<>>
    /\ idx = 0
    /\ out = [regions |-> <<>>, ranks |-> <<>>, shape_index |-> <<>>,
              rois |-> <<>>, bboxes |-> <<>>, ret |-> None]
    /\ raised = "none"

\* label, regionprops, the feature loop, the ranks and their argsort
RoiRank ==
    /\ pc = "label"
    /\ LET regs == RegionProps(PixelsOf(frames))
           f == RegionFeatures(regs)
       IN \E p \in ArgSorts(ShapeScores(f, args.bg_roi_weights)) :
             out' = [out EXCEPT !.regions = regs, !.ranks = Ranks(f),
                                !.shape_index = p]
    /\ pc' = "shape"
    /\ idx' = 1
    /\ UNCHANGED <<args, frames, features, raised>>

\* one pass of "for shape in shape_index"
RoiShape ==
    /\ pc = "shape"
    /\ idx <= Len(out.shape_index)
    /\ LET roi == ShapeRoi(out.regions[out.shape_index[idx]], args)
       IN out' = [out EXCEPT !.rois = Append(@, roi),
                             !.bboxes = Append(@, get_bbox(roi))]
    /\ idx' = idx + 1
    /\ UNCHANGED <<pc, args, frames, features, raised>>

\* the return value, with or without the extra data
RoiReturned(o, a) ==
    IF a.get_all_data
    THEN <<o.rois, "roi_plane", o.bboxes, "label_im", o.ranks, o.shape_index>>
    ELSE <<o.rois, "roi_plane">>

\* overlap_roi is None
RoiKeepAll ==
    /\ pc = "shape"
    /\ idx > Len(out.shape_index)
    /\ IsNone(args.overlap_roi)
    /\ out' = [out EXCEPT !.ret = RoiReturned(out, args)]
    /\ pc' = "done"
    /\ UNCHANGED <<args, frames, features, idx, raised>>

\* the overlaps, their argmax and the two del statements
RoiRemoveOverlap ==
    /\ pc = "shape"
    /\ idx > Len(out.shape_index)
    /\ ~IsNone(args.overlap_roi)
    /\ Len(out.rois) > 0
    /\ LET overlaps == [i \in DOMAIN out.rois |-> Overlap(args.overlap_roi[1], out.rois[i])]
           del_roi == ArgMaxFirst(overlaps)
           o == [out EXCEPT !.rois = DelAt(@, del_roi), !.bboxes = DelAt(@, del_roi)]
       IN out' = [o EXCEPT !.ret = RoiReturned(o, args)]
    /\ pc' = "done"
    /\ UNCHANGED <<args, frames, features, idx, raised>>

\* np.argmax of no overlaps
RoiRemoveRaises ==
    /\ pc = "shape"
    /\ idx > Len(out.shape_index)
    /\ ~IsNone(args.overlap_roi)
    /\ Len(out.rois) = 0
    /\ raised' = "ValueError"
    /\ pc' = "done"
    /\ UNCHANGED <<args, frames, features, idx, out>>

NextRoi ==
    \/ RoiRank
    \/ RoiShape
    \/ RoiKeepAll
    \/ RoiRemoveOverlap
    \/ RoiRemoveRaises

SpecRoi == InitRoi /\ [][NextRoi]_vars

\* the rois of all ranked regions, before any removal
AllRois == [i \in DOMAIN out.shape_index |-> ShapeRoi(out.regions[out.shape_index[i]], args)]

\* the bounding box of a mask: its smallest and largest row and column, or
\* None for a mask without a pixel
BoundingBoxOf(roi) ==
    LET S == {p \in RoiPixels : roi[p] > 0}
    IN IF S = {} THEN None
       ELSE <<<<SetMin({p[1] : p \in S}), SetMin({p[2] : p \in S})>>,
              <<SetMax({p[1] : p \in S}), SetMax({p[2] : p \in S})>>>>

\* rank transforms of a list of fractions: 1 for the best entry
FracGeq(x, y) == x[1] * y[2] >= y[1] * x[2]
RankLargerBetter(x, k) == Cardinality({j \in DOMAIN x : FracGeq(x[j], x[k])})
RankSmallerBetter(x, k) == Cardinality({j \in DOMAIN x : FracGeq(x[k], x[j])})

\* the weighted score of region k once areas are scaled by ka and distances
\* by kd
WeightedScore(k, ka, kd) ==
    LET regs == out.regions
        w == args.bg_roi_weights
        areas == [j \in DOMAIN regs |-> <<ka * Cardinality(regs[j]), 1>>]
        extents == [j \in DOMAIN regs |-> RegionExtent(regs[j])]
        dists == [j \in DOMAIN regs |-> <<kd * RegionDist(regs[j]), 1>>]
    IN w[1] * RankLargerBetter(areas, k) + w[2] * RankLargerBetter(extents, k)
       + w[3] * RankSmallerBetter(dists, k)

ScaleFactors == {1, 2, 5}

\* C17: the returned rois are those of the regions in non-decreasing order
\* of the weighted sum of rank-transformed area, extent and centre distance
\* (rank 1 = largest area, largest extent, smallest distance), also when all
\* areas or all distances are rescaled, and bboxes[i] is the bounding box
\* of rois[i].
C17_RankedBestFirst ==
    (pc = "done" /\ raised = "none") =>
        LET full == AllRois
            si == out.shape_index
            score == [ka \in ScaleFactors |-> [kd \in ScaleFactors |->
                        [k \in DOMAIN out.regions |-> WeightedScore(k, ka, kd)]]]
        IN /\ \A ka, kd \in ScaleFactors :
                 \A i, j \in DOMAIN si :
                    i < j => score[ka][kd][si[i]] <= score[ka][kd][si[j]]
           /\ \/ out.rois = full
              \/ \E d \in DOMAIN full : out.rois = DelAt(full, d)
           /\ Len(out.bboxes) = Len(out.rois)
           /\ \A i \in DOMAIN out.rois : out.bboxes[i] = BoundingBoxOf(out.rois[i])

\* two returned rois of different score, the better one of smaller area
C17_Witness ==
    /\ pc = "done"
    /\ raised = "none"
    /\ Len(out.rois) = 2
    /\ Len(out.shape_index) = 2
    /\ WeightedScore(out.shape_index[1], 1, 1) < WeightedScore(out.shape_index[2], 1, 1)
    /\ Cardinality(out.regions[out.shape_index[1]])
          < Cardinality(out.regions[out.shape_index[2]])
    /\ out.bboxes[2] # None

\* C18: with an overlap_roi the returned lists are the ranked rois and their
\* bounding boxes without one candidate, the same in both lists, whose
\* overlap with overlap_roi no other candidate exceeds; without an
\* overlap_roi they are the ranked lists, whole.
C18_MaxOverlapRemoved ==
    (pc = "done" /\ raised = "none") =>
        LET full == AllRois
            boxes == [i \in DOMAIN full |-> BoundingBoxOf(full[i])]
            overlaps == [i \in DOMAIN full |-> Overlap(args.overlap_roi[1], full[i])]
        IN IF IsNone(args.overlap_roi)
           THEN out.rois = full /\ out.bboxes = boxes
           ELSE \E d \in DOMAIN full :
                   /\ \A j \in DOMAIN full : overlaps[j] <= overlaps[d]
                   /\ out.rois = DelAt(full, d)
                   /\ out.bboxes = DelAt(boxes, d)

\* the second-ranked of three candidates covers the overlap_roi and is the
\* one removed
C18_Witness ==
    /\ pc = "done"
    /\ raised = "none"
    /\ ~IsNone(args.overlap_roi)
    /\ Len(AllRois) = 3
    /\ Overlap(args.overlap_roi[1], AllRois[2]) > 0
    /\ out.rois = <<AllRois[1], AllRois[3]>>

\* ======================================================================
\* Dominant contour of get_frame_features, typical and object-removal mode
\* (a frame is given by the contours cv2.findContours returns for its mask)

\* mouse encl. circle is no bigger than this
RadiusThreshold == 50

\* a contour: cv2.contourArea, the radius of cv2.minEnclosingCircle, and the
\* centroid its moments give (the same on both axes)
ObjContours ==
    { [area |-> 10, radius |-> 5, centroid |-> 1],
      [area |-> 20, radius |-> 5, centroid |-> 2],
      [area |-> 20, radius |-> 60, centroid |-> 3],
      [area |-> 10, radius |-> 50, centroid |-> 4] }

\* cnts of one frame, in the order findContours lists them
ObjFrames == UNION { [1..n -> ObjContours] : n \in 0..2 }

\* remove_obj_from_bg, whether obj_removal/obj_removal_info.p can be opened,
\* and use_cc (off: the connected-component mask is the subject of SpecSeg)
ObjSegArgs == [remove_obj_from_bg : BOOLEAN, info_file : BOOLEAN, use_cc : {FALSE}]

\* possible_mice = enclosing_radii < radius_threshold
PossibleMice(cnts) == {k \in DOMAIN cnts : cnts[k].radius < RadiusThreshold}

\* np.where(tmp == tmp[possible_mice].max())[0][0]: the first contour, of
\* any radius, whose area equals the largest area below the cap; the max of
\* no area raises, and the bare except skips the frame
ObjMouseCnt(cnts) ==
    LET pm == PossibleMice(cnts)
    IN IF pm = {} THEN None
       ELSE LET top == SetMax({cnts[k].area : k \in pm})
            IN <<SetMin({k \in DOMAIN cnts : cnts[k].area = top})>>

\* tmp.argmax()
TypicalMouseCnt(cnts) ==
    <<SetMin({k \in DOMAIN cnts : \A j \in DOMAIN cnts : cnts[j].area <= cnts[k].area})>>

\* im_moment_features of a contour with an area
ContourMoments(c) ==
    [centroid |-> <<c.centroid, c.centroid>>, orientation |-> 0,
     axis_length |-> <<c.radius, c.radius>>]

\* the feature row the body of the frame loop leaves for a frame
ObjFrameRow(cnts, a) ==
    LET k == IF a.remove_obj_from_bg THEN ObjMouseCnt(cnts) ELSE TypicalMouseCnt(cnts)
    IN IF Len(cnts) = 0 THEN NaNRow
       ELSE IF IsNone(k) THEN NaNRow
       ELSE ContourMoments(cnts[k[1]])

InitObjSeg ==
    /\ pc = "seg_loop"
    /\ args \in ObjSegArgs
    /\ frames \in [Range(NFrames) -> ObjFrames]
    /\ features = [i \in Range(NFrames) |-> NaNRow]
    /\ idx = 1
    /\ out = <<>>
    /\ raised = "none"

\* a frame of the object-removal mode whose obj_removal_info.p cannot be
\* opened
ObjSegFrameRaises ==
    /\ pc = "seg_loop"
    /\ idx <= NFrames
    /\ args.remove_obj_from_bg
    /\ ~args.info_file
    /\ pc' = "seg_raised"
    /\ raised' = "FileNotFoundError"
    /\ UNCHANGED <<args, frames, features, idx, out>>

\* one pass of the frame loop
ObjSegFrame ==
    /\ pc = "seg_loop"
    /\ idx <= NFrames
    /\ args.remove_obj_from_bg => args.info_file
    /\ features' = [features EXCEPT ![idx] = ObjFrameRow(frames[idx], args)]
    /\ idx' = idx + 1
    /\ UNCHANGED <<pc, args, frames, out, raised>>

ObjSegReturn ==
    /\ pc = "seg_loop"
    /\ idx > NFrames
    /\ pc' = "seg_done"
    /\ UNCHANGED <<args, frames, features, idx, out, raised>>

NextObjSeg == ObjSegFrameRaises \/ ObjSegFrame \/ ObjSegReturn

SpecObjSeg == InitObjSeg /\ [][NextObjSeg]_vars

\* C19: in object-removal mode the row of every frame gone through comes
\* from a contour with enclosing radius below the cap whose area no other
\* contour below the cap exceeds; a frame without a contour below the cap
\* keeps its NaN row, and the loop goes on.
C19_DominantBelowCap ==
    (args.remove_obj_from_bg /\ args.info_file) =>
        /\ raised = "none"
        /\ \A i \in 1..(idx - 1) :
              LET cnts == frames[i]
                  below == {k \in DOMAIN cnts : cnts[k].radius < 50}
              IN IF below = {} THEN features[i] = NaNRow
                 ELSE \E k \in below :
                         /\ \A j \in below : cnts[j].area <= cnts[k].area
                         /\ features[i] = ContourMoments(cnts[k])

\* ======================================================================
\* Background model builder: get_bground_im_file, call after call on one
\* session (one frames_file and output_dir, hence one bground_path)

\* calls of a session the model follows
MaxCalls == 3

\* the frames read at the stride, one depth value each, in half millimetres
BgMovies == UNION { [1..n -> {800, 1001}] : n \in 1..2 }

\* how interp_elliptical_floor ends on the session's background: it
\* returns, it raises (no acceptable ellipse), or its search never ends
FloorOutcomes == {"fits", "IndexError", "never"}

\* write_image(path, image, scale=True): the file holds whole units
write_image(image) == <<2 * (image \div 2)>>
\* read_image(path, scale=True)
read_image(file) == file[1]

\* the session: what an earlier run left at bground_path, and how the floor
\* fit of its background ends
BgSessions ==
    [floor : FloorOutcomes, stored : {None, write_image(900)}]

BgCalls == [recompute_bg : BOOLEAN, remove_obj_from_bg : BOOLEAN]

NeedsCompute_always(file, call) == TRUE

\* not exists(bground_path) or kwargs.get('recompute_bg', False)
NeedsCompute(file, call) == IsNone(file) \/ call.recompute_bg

\* np.nanmedian(frame_store, axis=0), cv2.medianBlur leaving a one-pixel
\* frame as it is
MedianFrame(movie) == NanMedian(movie)

\* interp_bkgd: the background with the object replaced by the fitted floor
InterpBkgd(bground) == bground + 100

InitBg ==
    /\ pc = "idle"
    /\ args \in BgSessions
    /\ frames \in BgMovies
    /\ features = <<>>
    /\ idx = 0
    /\ out = [file |-> args.stored, info |-> FALSE, call |-> None,
              ret |-> None, message |-> ""]
    /\ raised = "none"

\* a call starts and takes the branch of the existence test
BgCall ==
    /\ pc = "idle"
    /\ idx < MaxCalls
    /\ \E call \in BgCalls :
          /\ out' = [out EXCEPT !.call = call, !.ret = None, !.message = ""]
          /\ pc' = IF NeedsCompute(out.file, call) THEN "compute" ELSE "reload"
    /\ idx' = idx + 1
    /\ raised' = "none"
    /\ UNCHANGED <<args, frames, features>>

\* the computing branch without object removal
BgCompute ==
    /\ pc = "compute"
    /\ ~out.call.remove_obj_from_bg
    /\ LET bground == MedianFrame(frames)
       IN out' = [out EXCEPT !.file = write_image(bground), !.ret = <<bground>>]
    /\ pc' = "idle"
    /\ UNCHANGED <<args, frames, features, idx, raised>>

\* the computing branch with object removal
BgComputeInterp ==
    /\ pc = "compute"
    /\ out.call.remove_obj_from_bg
    /\ args.floor = "fits"
    /\ LET bground == InterpBkgd(MedianFrame(frames))
       IN out' = [out EXCEPT !.file = write_image(bground), !.info = TRUE,
                             !.ret = <<bground>>]
    /\ pc' = "idle"
    /\ UNCHANGED <<args, frames, features, idx, raised>>

\* interp_elliptical_floor raises: nothing is written
BgComputeInterpRaises ==
    /\ pc = "compute"
    /\ out.call.remove_obj_from_bg
    /\ args.floor = "IndexError"
    /\ raised' = "IndexError"
    /\ pc' = "idle"
    /\ UNCHANGED <<args, frames, features, idx, out>>

\* interp_elliptical_floor stays in the retry loop of get_floor_ellipse
BgComputeInterpStuck ==
    /\ pc = "compute"
    /\ out.call.remove_obj_from_bg
    /\ args.floor = "never"
    /\ pc' = "stuck"
    /\ UNCHANGED <<args, frames, features, idx, out, raised>>

\* the reloading branch
BgReload ==
    /\ pc = "reload"
    /\ out' = [out EXCEPT !.ret = <<read_image(out.file)>>,
                          !.message = "Background already exists, reloading..."]
    /\ pc' = "idle"
    /\ UNCHANGED <<args, frames, features, idx, raised>>

NextBg ==
    \/ BgCall
    \/ BgCompute
    \/ BgComputeInterp
    \/ BgComputeInterpRaises
    \/ BgComputeInterpStuck
    \/ BgReload

SpecBg == InitBg /\ [][NextBg]_vars

C21_RemovalInfoAvailable ==
    (/\ pc = "idle"
     /\ raised = "none"
     /\ ~IsNone(out.call)
     /\ out.call.remove_obj_from_bg
     /\ ~IsNone(out.ret)) => out.info

\* ======================================================================
\* Frame cleaner: clean_frames

\* the columns of the (1 x 5) frames of the cleaner model
CleanCols == 1..5

\* the depth rows the batches are made of, before the cast to frame_dtype
CleanRows ==
    { <<0, 300, 0, 0, 300>>, <<0, 100, 100, 0, 100>>,
      <<100, 100, 100, 100, 100>> }

\* a setting: None, an int, or a list of kernel sizes
NoSetting == [kind |-> "None", v |-> <<>>]
IntSetting(n) == [kind |-> "int", v |-> <<n>>]
ListSetting(l) == [kind |-> "list", v |-> l]

CleanArgs ==
    [frames : [Range(NFrames) -> CleanRows],
     iters_min : {NoSetting, IntSetting(0), IntSetting(1)},
     prefilter_space : {NoSetting, IntSetting(0), ListSetting(<<>>),
                        ListSetting(<<3>>), ListSetting(<<3, 5>>),
                        ListSetting(<<5, 3>>)},
     iters_tail : {NoSetting, IntSetting(0), IntSetting(1)},
     prefilter_time : {NoSetting, IntSetting(0), ListSetting(<<>>),
                       ListSetting(<<3>>)}]

\* astype('uint8') of a non-negative depth
AsFrameDtype(row) == [c \in DOMAIN row |-> row[c] % 256]

\* "iters is not None and iters > 0"
ItersOn(s) == IF s.kind = "None" THEN FALSE ELSE s.v[1] > 0
\* "prefilter is not None and np.all(np.array(prefilter) > 0)"
KernelsOn(s) ==
    IF s.kind = "None" THEN FALSE ELSE \A j \in DOMAIN s.v : s.v[j] > 0

\* the window of half-width h around column c that lies inside the row
Window(row, c, h) == {d \in DOMAIN row : Abs(d - c) <= h}

\* cv2.erode / cv2.dilate of a one-row image with a structuring element
\* whose middle row is k wide (pixels outside the image do not count); the
\* third positional argument is dst, so one iteration is run
GrayErode(row, k) ==
    [c \in DOMAIN row |-> SetMin({row[d] : d \in Window(row, c, k \div 2)})]
GrayDilate(row, k) ==
    [c \in DOMAIN row |-> SetMax({row[d] : d \in Window(row, c, k \div 2)})]

\* cv2.medianBlur(row, k): border pixels are replicated
medianBlur(row, k) ==
    LET h == k \div 2
        at(d) == row[Max2(1, Min2(Len(row), d))]
    IN [c \in DOMAIN row |->
           Sorted([j \in 1..k |-> at(c - h + j - 1)])[h + 1]]

\* cv2.morphologyEx(row, cv2.MORPH_OPEN, strel): erosion, then dilation
morphologyOpen(row, k) == GrayDilate(GrayErode(row, k), k)

\* strel_min is 5 x 5, strel_tail 7 x 7
MinFilter(row, a) == IF ItersOn(a.iters_min) THEN GrayErode(row, 5) ELSE row

SpatialBlur_reversed(row, ks) ==
    LET RECURSIVE B(_, _)
        B(r, j) == IF j < 1 THEN r ELSE B(medianBlur(r, ks[j]), j - 1)
    IN B(row, Len(ks))

\* for j in range(len(prefilter_space)): medianBlur(..., prefilter_space[j])
SpatialBlur(row, ks) ==
    LET RECURSIVE B(_, _)
        B(r, j) == IF j > Len(ks) THEN r ELSE B(medianBlur(r, ks[j]), j + 1)
    IN B(row, 1)

SpaceFilter(row, a) ==
    IF KernelsOn(a.prefilter_space)
    THEN SpatialBlur(row, a.prefilter_space.v) ELSE row

TailFilter(row, a) ==
    IF ItersOn(a.iters_tail) THEN morphologyOpen(row, 7) ELSE row

\* scipy.signal.medfilt(filtered_frames, [k, 1, 1]): every pixel's series
\* over the batch, zero padded
TemporalMedian(batch, k) ==
    LET series(c) == MedFilt([i \in DOMAIN batch |-> batch[i][c]], k)
    IN [i \in DOMAIN batch |-> [c \in CleanCols |-> series(c)[i]]]

TimeFilter(batch, a) ==
    LET RECURSIVE T(_, _)
        T(b, j) == IF j > Len(a.prefilter_time.v) THEN b
                   ELSE T(TemporalMedian(b, a.prefilter_time.v[j]), j + 1)
    IN IF KernelsOn(a.prefilter_time) THEN T(batch, 1) ELSE batch

CallerFrames_aliased(caller, filtered) == filtered

\* filtered_frames = frames.copy().astype(frame_dtype): what the caller's
\* array holds after a write into filtered_frames
CallerFrames(caller, filtered) == caller

\* frames is the caller's batch, out is filtered_frames
InitClean ==
    /\ pc = "clean_loop"
    /\ args \in CleanArgs
    /\ frames = args.frames
    /\ features = <<>>
    /\ idx = 1
    /\ out = [i \in Range(NFrames) |-> AsFrameDtype(args.frames[i])]
    /\ raised = "none"

\* one iteration of the loop over the frames
CleanFrame ==
    /\ pc = "clean_loop"
    /\ idx <= NFrames
    /\ LET cleaned == TailFilter(SpaceFilter(MinFilter(out[idx], args), args),
                                 args)
       IN /\ out' = [out EXCEPT ![idx] = cleaned]
          /\ frames' = CallerFrames(frames, [out EXCEPT ![idx] = cleaned])
    /\ idx' = idx + 1
    /\ UNCHANGED <<pc, args, features, raised>>

\* the temporal median filter and the return
CleanReturn ==
    /\ pc = "clean_loop"
    /\ idx > NFrames
    /\ out' = TimeFilter(out, args)
    /\ frames' = CallerFrames(frames, TimeFilter(out, args))
    /\ pc' = "clean_done"
    /\ UNCHANGED <<args, features, idx, raised>>

NextClean == CleanFrame \/ CleanReturn

SpecClean == InitClean /\ [][NextClean]_vars

\* the batch as passed, cast to frame_dtype
CleanCast == [i \in Range(NFrames) |-> [c \in CleanCols |-> args.frames[i][c] % 256]]

\* C22: a filter whose setting is None, zero or an empty list is skipped
\* whatever the other three settings are, and no call raises; the returned
\* batch is the cast input with the enabled filters applied (erosion,
\* spatial blur with its kernels in list order, opening, temporal median),
\* so with all four disabled it is the cast input.
C22_TogglesIndependent ==
    LET off(s) == s.kind = "None" \/ s.v = <<>> \/ s.v = <<0>>
        sp == args.prefilter_space.v
        eroded(i) == IF off(args.iters_min) THEN CleanCast[i]
                     ELSE GrayErode(CleanCast[i], 5)
        blurred(i) == IF off(args.prefilter_space) THEN eroded(i)
                      ELSE IF Len(sp) = 1 THEN medianBlur(eroded(i), sp[1])
                      ELSE medianBlur(medianBlur(eroded(i), sp[1]), sp[2])
        opened(i) == IF off(args.iters_tail) THEN blurred(i)
                     ELSE morphologyOpen(blurred(i), 7)
        perframe == [i \in Range(NFrames) |-> opened(i)]
        final == IF off(args.prefilter_time) THEN perframe
                 ELSE TemporalMedian(perframe, args.prefilter_time.v[1])
    IN /\ raised = "none"
       /\ pc = "clean_done" => out = final

\* a returned call with only the spatial blur enabled, kernels (3, 5), on a
\* batch where the order of the kernels shows
C22_Witness ==
    /\ pc = "clean_done"
    /\ args.prefilter_space = ListSetting(<<3, 5>>)
    /\ args.iters_min = IntSetting(0)
    /\ args.iters_tail = NoSetting
    /\ args.prefilter_time = ListSetting(<<>>)
    /\ out # [i \in Range(NFrames) |-> medianBlur(medianBlur(CleanCast[i], 5), 3)]
    /\ out # CleanCast

\* some filter of the call is enabled
CleanEnabled ==
    \/ args.iters_min = IntSetting(1)
    \/ args.iters_tail = IntSetting(1)
    \/ args.prefilter_space.kind = "list" /\ args.prefilter_space.v # <<>>
    \/ args.prefilter_time.kind = "list" /\ args.prefilter_time.v # <<>>

\* C23 as stated: after a call with a filter enabled the caller's batch
\* holds the same data as the returned batch.
C23_CleanedInPlace ==
    (pc = "clean_done" /\ CleanEnabled) => frames = out

\* C23: clean_frames works on a copy; the caller's batch holds what it held
\* at the call, in every state of the call and after it.
C23_CallerBatchUnchanged == frames = args.frames

\* a returned call whose filters changed the batch
C23_Witness ==
    /\ pc = "clean_done"
    /\ CleanEnabled
    /\ out # CleanCast
    /\ frames = args.frames

\* ======================================================================
\* ROI application: apply_roi, apply_roi_to_mask

\* the frame of the batch and the 2D mask the ROI is applied to: every
\* pixel holds a value of its own
RoiFrame == [p \in RoiPixels |-> 10 * (p[1] + 1) + p[2] + 1]

ApplyRoiArgs == [roi : Rois, fn : {"apply_roi", "apply_roi_to_mask"}]

\* image[bbox[0, 0]:bbox[1, 0], bbox[0, 1]:bbox[1, 1]]: the rows from
\* bbox[0, 0] up to, not including, bbox[1, 0], and so for the columns
SliceBbox(image, bbox) ==
    LET h == bbox[2][1] - bbox[1][1]
        w == bbox[2][2] - bbox[1][2]
    IN [shape |-> <<h, w>>,
        data |-> [p \in (0..(h - 1)) \X (0..(w - 1)) |->
                     image[<<bbox[1][1] + p[1], bbox[1][2] + p[2]>>]]]

\* frames * roi
Masked2(image, roi) == [p \in RoiPixels |-> image[p] * roi[p]]

InitApplyRoi ==
    /\ pc = "roi_call"
    /\ args \in ApplyRoiArgs
    /\ frames = RoiFrame
    /\ features = None
    /\ idx = 0
    /\ out = None
    /\ raised = "none"

ApplyRoi ==
    /\ pc = "roi_call"
    /\ args.fn = "apply_roi"
    /\ ~IsNone(get_bbox(args.roi))
    /\ out' = SliceBbox(Masked2(frames, args.roi), get_bbox(args.roi))
    /\ pc' = "roi_done"
    /\ UNCHANGED <<args, frames, features, idx, raised>>

\* bbox[0, 0] with bbox None
ApplyRoiRaises ==
    /\ pc = "roi_call"
    /\ args.fn = "apply_roi"
    /\ IsNone(get_bbox(args.roi))
    /\ raised' = "TypeError"
    /\ pc' = "roi_done"
    /\ UNCHANGED <<args, frames, features, idx, out>>

ApplyRoiToMask ==
    /\ pc = "roi_call"
    /\ args.fn = "apply_roi_to_mask"
    /\ ~IsNone(get_bbox(args.roi))
    /\ out' = SliceBbox(frames, get_bbox(args.roi))
    /\ pc' = "roi_done"
    /\ UNCHANGED <<args, frames, features, idx, raised>>

ApplyRoiToMaskRaises ==
    /\ pc = "roi_call"
    /\ args.fn = "apply_roi_to_mask"
    /\ IsNone(get_bbox(args.roi))
    /\ raised' = "TypeError"
    /\ pc' = "roi_done"
    /\ UNCHANGED <<args, frames, features, idx, out>>

NextApplyRoi ==
    \/ ApplyRoi
    \/ ApplyRoiRaises
    \/ ApplyRoiToMask
    \/ ApplyRoiToMaskRaises

SpecApplyRoi == InitApplyRoi /\ [][NextApplyRoi]_vars

\* C24: with an all-false ROI neither apply_roi nor apply_roi_to_mask
\* raises.
C24_EmptyRoiHandled ==
    (pc = "roi_done" /\ NonZero(args.roi) = {}) => raised = "none"

\* C25: for a non-empty ROI the result has the rows ymin..ymax and the
\* columns xmin..xmax of the bounding box, and every pixel where the ROI is
\* nonzero is in it with its masked value.
C25_CropCoversBox ==
    (pc = "roi_done" /\ NonZero(args.roi) # {}) =>
        LET ys == {p[1] : p \in NonZero(args.roi)}
            xs == {p[2] : p \in NonZero(args.roi)}
        IN /\ raised = "none"
           /\ out.shape = <<SetMax(ys) - SetMin(ys) + 1,
                            SetMax(xs) - SetMin(xs) + 1>>
           /\ \A p \in NonZero(args.roi) :
                 LET q == <<p[1] - SetMin(ys), p[2] - SetMin(xs)>>
                 IN /\ q \in DOMAIN out.data
                    /\ out.data[q] = IF args.fn = "apply_roi"
                                     THEN frames[p] * args.roi[p]
                                     ELSE frames[p]

\* ======================================================================
\* Crop-rotate aligner on centroids inside the frame

\* whole-pixel centroids inside the frame (in half pixels), one centroid
\* right of the frame, and the NaN row
InFrameRows ==
    {[centroid |-> <<2 * x, 2 * y>>, orientation |-> 0, axis_length |-> <<2, 1>>] :
        x \in 0..(FrameCols - 1), y \in 0..(FrameRows - 1)}
EdgeRows ==
    InFrameRows \cup
    {NaNRow,
     [centroid |-> <<2 * (FrameCols + 6), 0>>, orientation |-> 0,
      axis_length |-> <<2, 1>>]}

\* square crop sizes from 2 up, and one that is not square
SquareCropSizes == {<<2, 2>>, <<3, 3>>, <<4, 4>>, <<5, 5>>, <<2, 4>>}

InitCropInFrame ==
    /\ pc = "crop_loop"
    /\ args \in [crop_size : SquareCropSizes]
    /\ frames = [shape |-> <<NFrames, FrameRows, FrameCols>>]
    /\ features \in [Range(NFrames) -> EdgeRows]
    /\ idx = 1
    /\ out = [i \in Range(NFrames) |-> ZeroPatch(args.crop_size)]
    /\ raised = "none"

SpecCropInFrame == InitCropInFrame /\ [][NextCrop]_vars

\* C30: with a square crop size c, a frame gone through whose centroid is a
\* whole pixel inside the frame is not rejected by the bounds check: its
\* patch is cut, with window rows in [1, H + 2c - 1] and columns in
\* [1, W + 2c - 1], and the window cut is c x c when c is even.
C30_InFrameCroppable ==
    LET c == args.crop_size[1]
    IN args.crop_size[2] = c =>
         /\ raised = "none"
         /\ \A i \in 1..(idx - 1) :
               features[i] \in InFrameRows =>
                  /\ out[i] # ZeroPatch(args.crop_size)
                  /\ out[i].kind = "warp"
                  /\ 1 <= out[i].rows[1] /\ out[i].rows[2] <= FrameRows + 2 * c - 1
                  /\ 1 <= out[i].cols[1] /\ out[i].cols[2] <= FrameCols + 2 * c - 1
                  /\ out[i].rows[1] = features[i].centroid[2] \div 2 + c - c \div 2
                  /\ out[i].cols[1] = features[i].centroid[1] \div 2 + c - c \div 2
                  /\ c % 2 = 0 => out[i].src_shape = <<c, c>>

\* a returned call with an even square crop size whose frames have the
\* centroids in the first and in the last pixel of the frame
C30_Witness ==
    /\ pc = "crop_done"
    /\ args.crop_size = <<4, 4>>
    /\ features[1].centroid = <<0, 0>>
    /\ features[NFrames].centroid = <<2 * (FrameCols - 1), 2 * (FrameRows - 1)>>
    /\ out[NFrames].src_shape = <<4, 4>>

\* ======================================================================
\* Command line: find-roi and extract (cli.py)

\* nframes, chunk_size and chunk_overlap of the runs
MovieLengths == {3, 5}
ChunkSizes == {2, 3}
ChunkOverlaps == {0, 1}

\* the images of a run, one depth value each: the median background that
\* get_bground_im_file computes and the plane-fit image of extract
MedianIm == 901
PlaneIm == 850

\* a run: the command, its options, what the output directory holds at the
\* start (status file, bground.tiff, roi_XX.tiff), whether plane_ransac
\* takes keywords it does not name, and the batch (0: none) in which
\* load_movie_data or extract_chunk raises
CliArgs ==
    [cmd : {"find-roi", "extract"},
     use_plane_bground : BOOLEAN,
     output_dir : {None, <<"out">>},
     status_file : {None, <<FALSE>>, <<TRUE>>},
     bground_file : {None, write_image(900), write_image(PlaneIm)},
     roi_file : BOOLEAN,
     ransac_kwargs : BOOLEAN,
     nframes : MovieLengths,
     chunk_size : ChunkSizes,
     chunk_overlap : ChunkOverlaps,
     fails_in : 0..2]

\* gen_batch_sequence(nframes, chunk_size, chunk_overlap): the batches
\* <<first, last>> start every chunk_size - overlap frames while more than
\* overlap frames are left, and end with the movie
gen_batch_sequence(nframes, chunk_size, overlap) ==
    LET step == chunk_size - overlap
        n == (nframes - overlap + step - 1) \div step
    IN [b \in 1..n |-> <<(b - 1) * step,
                         Min2((b - 1) * step + chunk_size, nframes) - 1>>]

BatchOffset_none(i, chunk_overlap) == 0

\* "if i > 0: offset = chunk_overlap else: offset = 0" (i counts from 1 here)
BatchOffset(i, chunk_overlap) == IF i > 1 THEN chunk_overlap ELSE 0

\* f[dataset][frame_range[offset:]] = results[...][offset:, ...]: every
\* frame of the trimmed range takes the value batch i computed for it
WriteBatch(dataset, range, offset, i) ==
    [k \in DOMAIN dataset |->
        IF range[1] + offset <= k /\ k <= range[2]
        THEN Append(dataset[k], i) ELSE dataset[k]]

StatusDict_complete(complete) == <<TRUE>>

\* status_dict as dumped to results_XX.yaml
StatusDict(complete) == <<complete>>

\* what get_roi returns for the call of cli.py 89 and 203: get_all_data is
\* not passed
CliRoiReturned ==
    RoiReturned([rois |-> <<"roi">>, bboxes |-> <<"bbox">>, ranks |-> <<"ranks">>,
                 shape_index |-> <<1>>],
                [get_all_data |-> FALSE])

\* out.status, out.bground, out.roi are the files of the output directory,
\* out.scalars and out.depth the datasets of results_XX.h5 (per frame, the
\* batches that wrote it), out.subtracted the background of each batch;
\* frames is bground_im and features is roi
InitCli ==
    /\ pc = "start"
    /\ args \in CliArgs
    /\ frames = None
    /\ features = None
    /\ idx = 0
    /\ out = [status |-> args.status_file, bground |-> args.bground_file,
              roi |-> args.roi_file, scalars |-> <<>>, depth |-> <<>>,
              subtracted |-> <<>>]
    /\ raised = "none"

\* find-roi has no status file
CliFindRoiStart ==
    /\ pc = "start"
    /\ args.cmd = "find-roi"
    /\ pc' = "bground"
    /\ UNCHANGED <<args, frames, features, idx, out, raised>>

\* extract: "Already found a status file"
CliStatusExistsRaises ==
    /\ pc = "start"
    /\ args.cmd = "extract"
    /\ ~IsNone(out.status)
    /\ raised' = "RuntimeError"
    /\ pc' = "failed"
    /\ UNCHANGED <<args, frames, features, idx, out>>

CliWriteStatus ==
    /\ pc = "start"
    /\ args.cmd = "extract"
    /\ IsNone(out.status)
    /\ out' = [out EXCEPT !.status = StatusDict(FALSE)]
    /\ pc' = "bground"
    /\ UNCHANGED <<args, frames, features, idx, raised>>

CliLoadBground ==
    /\ pc = "bground"
    /\ ~IsNone(out.bground)
    /\ frames' = <<read_image(out.bground)>>
    /\ pc' = "roi"
    /\ UNCHANGED <<args, features, idx, out, raised>>

\* get_bground_im_file(input_file) computes the median image and, called
\* without output_dir, stores it as proc/bground.tiff, which is the output
\* directory's when output_dir is the default; the command stores it itself
\* unless it is extract with use_plane_bground
CliGetBground ==
    /\ pc = "bground"
    /\ IsNone(out.bground)
    /\ frames' = <<MedianIm>>
    /\ out' = [out EXCEPT !.bground =
                 IF IsNone(args.output_dir)
                    \/ args.cmd = "find-roi" \/ ~args.use_plane_bground
                 THEN write_image(MedianIm) ELSE None]
    /\ pc' = "roi"
    /\ UNCHANGED <<args, features, idx, raised>>

CliLoadRoi ==
    /\ pc = "roi"
    /\ args.cmd = "extract"
    /\ out.roi
    /\ features' = <<"roi">>
    /\ out' = [out EXCEPT
                 !.scalars = [k \in 0..(args.nframes - 1) |-> <<>>],
                 !.depth = [k \in 0..(args.nframes - 1) |-> <<>>]]
    /\ idx' = 1
    /\ pc' = "batches"
    /\ UNCHANGED <<args, frames, raised>>

\* get_roi(bground_im, strel_dilate=..., weights=...): weights goes on to
\* plane_ransac with the other keywords; the two values returned are
\* unpacked into six names
CliGetRoiRaises ==
    /\ pc = "roi"
    /\ args.cmd = "find-roi" \/ ~out.roi
    /\ \/ ~args.ransac_kwargs /\ raised' = "TypeError"
       \/ args.ransac_kwargs /\ Len(CliRoiReturned) # 6 /\ raised' = "ValueError"
    /\ pc' = "failed"
    /\ UNCHANGED <<args, frames, features, idx, out>>

CliBatches == gen_batch_sequence(args.nframes, args.chunk_size, args.chunk_overlap)

\* one batch: loaded, background-subtracted, extracted and written
CliBatch ==
    /\ pc = "batches"
    /\ idx <= Len(CliBatches)
    /\ idx # args.fails_in
    /\ LET offset == BatchOffset(idx, args.chunk_overlap)
       IN out' = [out EXCEPT
                    !.scalars = WriteBatch(out.scalars, CliBatches[idx], offset, idx),
                    !.depth = WriteBatch(out.depth, CliBatches[idx], offset, idx),
                    !.subtracted = Append(out.subtracted, frames[1])]
    /\ idx' = idx + 1
    /\ UNCHANGED <<pc, args, frames, features, raised>>

\* load_movie_data or extract_chunk raises in this batch
CliBatchRaises ==
    /\ pc = "batches"
    /\ idx <= Len(CliBatches)
    /\ idx = args.fails_in
    /\ raised' = "Exception"
    /\ pc' = "failed"
    /\ UNCHANGED <<args, frames, features, idx, out>>

CliComplete ==
    /\ pc = "batches"
    /\ idx > Len(CliBatches)
    /\ out' = [out EXCEPT !.status = StatusDict(TRUE)]
    /\ pc' = "done"
    /\ UNCHANGED <<args, frames, features, idx, raised>>

NextCli ==
    \/ CliFindRoiStart
    \/ CliStatusExistsRaises
    \/ CliWriteStatus
    \/ CliLoadBground
    \/ CliGetBground
    \/ CliLoadRoi
    \/ CliGetRoiRaises
    \/ CliBatch
    \/ CliBatchRaises
    \/ CliComplete

SpecCli == InitCli /\ [][NextCli]_vars

\* C26: after all batches every frame index of [0, nframes) was written
\* exactly once to the scalar datasets and to the frames dataset, by the
\* batch whose range holds it outside its trimmed leading overlap; and while
\* the batches run no frame has been written twice.
C26_EveryFrameOnce ==
    LET step == args.chunk_size - args.chunk_overlap
        \* the batch that starts at (b - 1) * step keeps frame k when k is
        \* past its leading overlap and inside its chunk_size frames
        keeps(b, k) ==
            /\ (b - 1) * step + (IF b = 1 THEN 0 ELSE args.chunk_overlap) <= k
            /\ k < (b - 1) * step + args.chunk_size
    IN /\ pc = "batches" =>
            \A k \in 0..(args.nframes - 1) :
                Len(out.scalars[k]) <= 1 /\ Len(out.depth[k]) <= 1
       /\ pc = "done" =>
            \A k \in 0..(args.nframes - 1) :
                /\ Len(out.scalars[k]) = 1
                /\ keeps(out.scalars[k][1], k)
                /\ out.depth[k] = out.scalars[k]

\* a finished run of four batches with overlapping chunks
C26_Witness ==
    /\ pc = "done"
    /\ args.chunk_overlap = 1
    /\ Len(out.subtracted) = 4
    /\ out.scalars[1] = <<1>>
    /\ out.scalars[2] = <<2>>
    /\ out.scalars[args.nframes - 1] = <<4>>

\* C27: a status file found at the start stops the command with
\* RuntimeError and stays as it was, and nothing else is written; a status
\* file the command wrote says complete=True only when every batch has
\* been written, and complete=False in every state before, also after a
\* failure in a batch.
C27_StatusProtocol ==
    /\ ~IsNone(args.status_file) /\ args.cmd = "extract" =>
          /\ out.status = args.status_file
          /\ out.bground = args.bground_file
          /\ out.scalars = <<>> /\ out.depth = <<>>
          /\ pc # "start" => raised = "RuntimeError"
    /\ IsNone(args.status_file) /\ args.cmd = "extract" =>
          /\ pc # "start" => ~IsNone(out.status)
          /\ out.subtracted # <<>> => ~IsNone(out.status)
          /\ out.status = <<TRUE>> =>
                /\ pc = "done"
                /\ raised = "none"
                /\ \A k \in 0..(args.nframes - 1) : Len(out.scalars[k]) >= 1
          /\ pc = "failed" => out.status = <<FALSE>>

\* a run that wrote its batches and then complete=True
C27_Witness ==
    /\ pc = "done"
    /\ IsNone(args.status_file)
    /\ out.status = <<TRUE>>
    /\ Len(out.subtracted) >= 2

\* C28: with use_plane_bground every batch had the plane-fit image
\* subtracted.
C28_PlaneSubtracted ==
    (args.cmd = "extract" /\ args.use_plane_bground) =>
        \A i \in DOMAIN out.subtracted : out.subtracted[i] = PlaneIm

\* C29: without a cached ROI file the ROI step of find-roi and extract ends
\* without error.
C29_RoiStepCompletes ==
    (pc # "start" /\ pc # "bground" /\ pc # "roi"
     /\ (args.cmd = "find-roi" \/ ~args.roi_file)
     /\ (args.cmd = "extract" => IsNone(args.status_file)))
        => raised = "none"

====
